---- MODULE Spec2Model ----
\* Model of the real-time voice streaming engine of voice_live_service.py:
\* VoiceLiveConnection (signaling socket + inbound queue), AudioPlayerAsync
\* (lock-protected playback queue + output stream) and VoiceLiveService
\* (start_session / stop_session and the two worker loops).
EXTENDS Integers, Sequences, FiniteSets, TLC

\* ---------------------------------------------------------------- bounds
\* longest PCM chunk (in samples) handed to add_data
MaxChunk == 2
\* number of add_data / stop / terminate calls of the stand-alone player client
MaxPlayerCalls == 4
\* largest frame count the output device requests from the callback
MaxFrames == 2

\* samples of one microphone frame (read_size, scaled down)
ReadSize == 2
\* microphone frames that become available in a session
MaxMicFrames == 1
\* inbound messages of a session
MaxMsgs == 1
\* inbound messages of a session whose receive loop is followed in detail
MaxRecvMsgs == 5
\* frames per callback of the session's output stream (blocksize, scaled down)
BlockSize == 2
\* stop_session calls
MaxStops == 2
\* number of inbound messages the peer sends on the stand-alone connection
MaxConnMsgs == 3
\* number of send / recv / close calls of the stand-alone connection client
MaxConnCalls == 3
\* inbound messages of a session whose dispatch is followed
MaxDispatchMsgs == 3
\* events reported by start_session before no further start is tried
MaxStarts == 2
MaxCodecSamples == 3
MaxCodecFrames == 1
MaxMicSamples == 5

\* ---------------------------------------------------------------- helpers
None == "None"

Min(a, b) == IF a < b THEN a ELSE b

Take(s, n) == SubSeq(s, 1, Min(n, Len(s)))

Drop(s, n) == SubSeq(s, Min(n, Len(s)) + 1, Len(s))

Zeros(n) == [i \in 1..n |-> 0]

RECURSIVE Flatten(_)
Flatten(q) == IF q = <<>> THEN <<>> ELSE Head(q) \o Flatten(Tail(q))

IsPrefix(s, t) == Len(s) <= Len(t) /\ SubSeq(t, 1, Len(s)) = s

\* little-endian PCM16 bytes of a sequence of samples (what the device and
\* the service put on the wire before base64)
ToBytes(samples) ==
    [i \in 1..(2 * Len(samples)) |->
        LET v == samples[(i + 1) \div 2]
            u == IF v < 0 THEN v + 65536 ELSE v
        IN  IF i % 2 = 1 THEN u % 256 ELSE u \div 256]

\* np.frombuffer(data, dtype=np.int16): pairs of bytes, little endian, signed;
\* defined only for an even number of bytes (otherwise numpy raises ValueError)
FromBuffer(data) ==
    [i \in 1..(Len(data) \div 2) |->
        LET u == data[2 * i - 1] + 256 * data[2 * i]
        IN  IF u >= 32768 THEN u - 65536 ELSE u]

\* ---------------------------------------------------------------- wire format
\* the padding character "=" of base64, after the 64 digits 0..63
B64Pad == 64

\* base64.b64encode: three bytes become four digits, a shorter last group is
\* padded with "="
RECURSIVE B64Encode(_)
B64Encode(b) ==
    IF Len(b) = 0 THEN <<>>
    ELSE LET b2 == IF Len(b) >= 2 THEN b[2] ELSE 0
             b3 == IF Len(b) >= 3 THEN b[3] ELSE 0
             n == b[1] * 65536 + b2 * 256 + b3
             d1 == n \div 262144
             d2 == (n \div 4096) % 64
             d3 == IF Len(b) >= 2 THEN (n \div 64) % 64 ELSE B64Pad
             d4 == IF Len(b) >= 3 THEN n % 64 ELSE B64Pad
         IN  <<d1, d2, d3, d4>> \o B64Encode(Drop(b, 3))

\* a mutant of B64Group: the padding is read as data
B64GroupUnpadded(g) ==
    LET d3 == IF g[3] = B64Pad THEN 0 ELSE g[3]
        d4 == IF g[4] = B64Pad THEN 0 ELSE g[4]
        n == g[1] * 262144 + g[2] * 4096 + d3 * 64 + d4
    IN  <<n \div 65536, (n \div 256) % 256, n % 256>>

\* the bytes of one group of four base64 characters
B64Group(g) ==
    LET d3 == IF g[3] = B64Pad THEN 0 ELSE g[3]
        d4 == IF g[4] = B64Pad THEN 0 ELSE g[4]
        n == g[1] * 262144 + g[2] * 4096 + d3 * 64 + d4
        all == <<n \div 65536, (n \div 256) % 256, n % 256>>
    IN  IF g[3] = B64Pad THEN Take(all, 1)
        ELSE IF g[4] = B64Pad THEN Take(all, 2)
        ELSE all

\* whether base64.b64decode accepts the text: whole groups of four, padding
\* only at the end of the last group (otherwise it raises binascii.Error)
B64Valid(s) ==
    /\ Len(s) % 4 = 0
    /\ \A i \in 1..Len(s) :
          s[i] = B64Pad => /\ i >= Len(s) - 1
                           /\ s[Len(s)] = B64Pad

\* base64.b64decode of an accepted text
RECURSIVE B64Decode(_)
B64Decode(s) ==
    IF Len(s) < 4 THEN <<>> ELSE B64Group(Take(s, 4)) \o B64Decode(Drop(s, 4))

\* an inbound text message: form says whether it is a JSON object ("object"),
\* another JSON value ("value") or no JSON at all ("garbage"); keys are the
\* members the object has besides "type"; item_id and payload are the values
\* the receive loop reads (payload: the session id, the text, the error
\* details or the base64 audio)
Msg(type, keys, item_id, payload) ==
    [form |-> "object", type |-> type, keys |-> keys,
     item_id |-> item_id, payload |-> payload]

NoMsg == [form |-> "none", type |-> "", keys |-> {}, item_id |-> "", payload |-> <<>>]

SpeechStarted == Msg("input_audio_buffer.speech_started", {}, "", <<>>)

AudioDelta(item_id, samples) ==
    Msg("response.audio.delta", {"item_id", "delta"}, item_id, B64Encode(ToBytes(samples)))

ErrorEvent == Msg("error", {"error"}, "", <<>>)

\* an outbound message: its type and, for audio, the base64 text
OutMsg(type, audio) == [type |-> type, audio |-> audio]

\* ---------------------------------------------------------------- state
VARIABLES
    \* AudioPlayerAsync
    queue,          \* self.queue: deque of sample arrays
    lock,           \* self.lock: "free" or the thread holding it
    playing,        \* self.playing
    stream,         \* self.stream (sd.OutputStream): "stopped", "active", "closed"
    cb,             \* the device's callback thread: [pc, out]
    \* VoiceLiveConnection
    ws,             \* self._ws: None or the WebSocketApp
    connected,      \* self._connected
    sock,           \* the socket of the WebSocketApp: "none", "open", "closed"
    io,             \* the socket I/O thread (run_forever)
    message_queue,  \* self._message_queue
    outbox,         \* the message each thread is sending
    \* threads
    pc,             \* control point of each thread
    raised,         \* exceptions that left an operation: set of <<thread, op>>
    \* history
    added,          \* every sample appended by add_data, in call order
    played,         \* every non-padding sample taken by the callback, in order
    cleared,        \* number of queue.clear() executed
    sinceStop,      \* TRUE from the return of stop() to the next add_data
    streamCloses,   \* number of close() calls made on self.stream
    pushed,         \* every message put on the inbound queue, in order
    received,       \* every message returned by recv, in order
    sent,           \* every message written to the socket, in order
    closeCalls,     \* number of WebSocketApp.close() calls
    nApi,           \* calls made by the stand-alone client of a component
    \* VoiceLiveService
    running,        \* self.running
    stop_event,     \* the module-level threading.Event
    audio_player,   \* self.audio_player: None or the AudioPlayerAsync
    connection,     \* self.connection: None or the VoiceLiveConnection
    threads,        \* self.threads
    events,         \* what callback_handler was called with, in order
    ev,             \* receive loop: raw_event
    last_audio_item_id, \* receive loop: last_audio_item_id
    mic,            \* capture loop: the sd.InputStream
    micReads,       \* capture loop: frames read so far
    micBuf,         \* capture loop: samples waiting in the input stream's buffer
    started,        \* start_session has been called
    nStops,         \* stop_session calls begun
    stopLog,        \* steps of the stop_session in progress (or the last one)
    bargeIns,       \* stop() calls of the speech_started handler that returned
    flushMark,      \* the last sample added before the last such stop()
    \* HybridBot
    voice_ws,       \* the voice WebSocket of a client: "none", "open", "closed", "handled"
    session_task    \* the task running _handle_voice_live_session

pvars == <<queue, lock, playing, stream, cb>>
cvars == <<ws, connected, sock, io, message_queue, outbox>>
hvars == <<added, played, cleared, sinceStop, streamCloses>>
chvars == <<pushed, received, sent, closeCalls>>
flags == <<running, stop_event>>
refs == <<audio_player, connection, threads>>
rvars == <<ev, last_audio_item_id>>
capvars == <<mic, micReads, micBuf>>
shist == <<started, nStops, stopLog, bargeIns, flushMark>>
webvars == <<voice_ws, session_task>>
svars == <<flags, refs, rvars, capvars, events, shist, webvars>>
vars == <<pvars, cvars, pc, raised, hvars, chvars, nApi, svars>>
\* what the player's operations leave alone, and what the connection's do
notPlayer == <<cvars, chvars>>
notConn == <<pvars, hvars>>

Threads == {"api", "main", "send", "recv"}

\* where a thread continues after operation op returned
AfterReturn(t, op) ==
    CASE t = "recv" /\ op = "add_data" -> "loop"
      [] t = "recv" /\ op = "stop" -> "notify_speech_started"
      [] t = "recv" /\ op = "terminate" -> "done"
      [] t = "send" /\ op = "send" -> "cap_loop"
      [] t = "main" /\ op = "connect" -> "configure"
      [] t = "main" /\ op = "send" -> "notify_started"
      [] t = "main" /\ op = "terminate" -> "close"
      [] t = "main" /\ op = "close" -> "notify_stopped"
      [] OTHER -> "idle"

\* a mutant of AfterRaise: start_session goes on after a failed connect
AfterRaiseGoOn(t, op) ==
    CASE t = "recv" /\ op = "terminate" -> "done"
      [] t = "recv" -> "finally"
      [] t = "send" -> "cap_finally"
      [] t = "main" /\ op = "connect" -> "configure"
      [] t = "main" /\ op = "send" -> "start_except"
      [] t = "main" -> "stop_except"
      [] OTHER -> "idle"

\* where a thread continues after operation op raised: the handler of the
\* enclosing try statement
AfterRaise(t, op) ==
    CASE t = "recv" /\ op = "terminate" -> "done"
      [] t = "recv" -> "finally"
      [] t = "send" -> "cap_finally"
      [] t = "main" /\ op \in {"connect", "send"} -> "start_except"
      [] t = "main" -> "stop_except"
      [] OTHER -> "idle"

Return(t, op) == pc' = [pc EXCEPT ![t] = AfterReturn(t, op)]

Raise(t, op) ==
    /\ pc' = [pc EXCEPT ![t] = AfterRaise(t, op)]
    /\ raised' = raised \cup {<<t, op>>}

\* ---------------------------------------------------------------- AudioPlayerAsync
\* a mutant of DrainLoop: the unused tail of a split chunk is not pushed back
RECURSIVE DrainLoopDropTail(_, _, _)
DrainLoopDropTail(data, q, frames) ==
    IF Len(data) < frames /\ Len(q) > 0
    THEN DrainLoopDropTail(data \o Take(Head(q), frames - Len(data)), Tail(q), frames)
    ELSE [data |-> data, queue |-> q]

\* the while loop of callback: pop chunks until `frames` samples are collected,
\* pushing back the unused tail of a chunk that is longer than needed
RECURSIVE DrainLoop(_, _, _)
DrainLoop(data, q, frames) ==
    IF Len(data) < frames /\ Len(q) > 0
    THEN LET item == Head(q)
             frames_needed == frames - Len(data)
             rest == IF Len(item) > frames_needed
                     THEN <<Drop(item, frames_needed)>> \o Tail(q)
                     ELSE Tail(q)
         IN  DrainLoop(data \o Take(item, frames_needed), rest, frames)
    ELSE [data |-> data, queue |-> q]

\* a mutant of PadSilence: the shortfall is not padded
PadNothing(data, frames) == data

\* callback: if len(data) < frames, append zeros up to frames
PadSilence(data, frames) ==
    IF Len(data) < frames THEN data \o Zeros(frames - Len(data)) ELSE data

\* callback, the section under the lock: collect, then pad with zeros
callback(frames) ==
    /\ stream = "active"
    /\ cb.pc = "idle"
    /\ lock = "free"
    /\ LET r == DrainLoop(<<>>, queue, frames)
       IN  /\ queue' = r.queue
           /\ cb' = [pc |-> "write", frames |-> frames,
                     out |-> PadSilence(r.data, frames)]
           /\ played' = played \o r.data
    /\ UNCHANGED <<lock, playing, stream, pc, raised,
                   added, cleared, sinceStop, streamCloses, notPlayer>>

\* callback, after the lock: outdata[:] = data
callback_write ==
    /\ cb.pc = "write"
    /\ cb' = [pc |-> "idle", frames |-> 0, out |-> <<>>]
    /\ UNCHANGED <<queue, lock, playing, stream, pc, raised, hvars, notPlayer>>

\* a mutant of add_data: start() is called whether playing or not
add_data_restart(t, data) ==
    /\ lock = "free"
    /\ IF Len(data) % 2 # 0
       THEN /\ Raise(t, "add_data")
            /\ UNCHANGED <<queue, lock, playing, added, sinceStop>>
       ELSE LET np_data == FromBuffer(data) IN
            /\ queue' = Append(queue, np_data)
            /\ added' = added \o np_data
            /\ sinceStop' = FALSE
            /\ IF Len(queue') > 0
               THEN /\ playing' = TRUE
                    /\ lock' = t
                    /\ pc' = [pc EXCEPT ![t] = "stream_start"]
               ELSE /\ Return(t, "add_data")
                    /\ UNCHANGED <<lock, playing>>
            /\ UNCHANGED raised
    /\ UNCHANGED <<stream, cb, played, cleared, streamCloses, notPlayer>>

\* add_data: under the lock convert, append and decide whether to start;
\* start() sets playing before it touches the stream
add_data(t, data) ==
    /\ lock = "free"
    /\ IF Len(data) % 2 # 0
       THEN /\ Raise(t, "add_data")
            /\ UNCHANGED <<queue, lock, playing, added, sinceStop>>
       ELSE LET np_data == FromBuffer(data) IN
            /\ queue' = Append(queue, np_data)
            /\ added' = added \o np_data
            /\ sinceStop' = FALSE
            /\ IF ~playing /\ Len(queue') > 0
               THEN /\ playing' = TRUE
                    /\ lock' = t
                    /\ pc' = [pc EXCEPT ![t] = "stream_start"]
               ELSE /\ Return(t, "add_data")
                    /\ UNCHANGED <<lock, playing>>
            /\ UNCHANGED raised
    /\ UNCHANGED <<stream, cb, played, cleared, streamCloses, notPlayer>>

\* start(), second statement, still inside add_data's lock: self.stream.start().
\* Starting a started stream is ignored by sounddevice; starting a closed
\* stream raises PortAudioError, which leaves add_data (releasing the lock).
stream_start(t) ==
    /\ pc[t] = "stream_start"
    /\ lock = t
    /\ lock' = "free"
    /\ IF stream = "closed"
       THEN /\ Raise(t, "add_data")
            /\ UNCHANGED stream
       ELSE /\ stream' = "active"
            /\ Return(t, "add_data")
            /\ UNCHANGED raised
    /\ UNCHANGED <<queue, playing, cb, added, played, cleared, sinceStop,
                   streamCloses, notPlayer>>

\* a mutant of stop_clear: the queue is not cleared
stop_keep(t) ==
    /\ lock = "free"
    /\ cleared' = cleared + 1
    /\ pc' = [pc EXCEPT ![t] = "stop_halt"]
    /\ UNCHANGED <<queue, lock, playing, stream, cb, raised,
                   added, played, sinceStop, streamCloses, notPlayer>>

\* stop(): with self.lock: self.queue.clear()
stop_clear(t) ==
    /\ lock = "free"
    /\ queue' = <<>>
    /\ cleared' = cleared + 1
    /\ pc' = [pc EXCEPT ![t] = "stop_halt"]
    /\ UNCHANGED <<lock, playing, stream, cb, raised,
                   added, played, sinceStop, streamCloses, notPlayer>>

\* a mutant of stop_halt: the stream is left running
stop_no_halt(t) ==
    /\ pc[t] = "stop_halt"
    /\ cb.pc = "idle"
    /\ playing' = FALSE
    /\ sinceStop' = TRUE
    /\ Return(t, "stop")
    /\ UNCHANGED <<queue, lock, stream, cb, raised, added, played, cleared,
                   streamCloses, notPlayer>>

\* stop(): self.playing = False; self.stream.stop(). The device's stop waits
\* for a callback in progress; errors of stopping are ignored by sounddevice.
stop_halt(t) ==
    /\ pc[t] = "stop_halt"
    /\ cb.pc = "idle"
    /\ playing' = FALSE
    /\ stream' = IF stream = "active" THEN "stopped" ELSE stream
    /\ sinceStop' = TRUE
    /\ Return(t, "stop")
    /\ UNCHANGED <<queue, lock, cb, raised, added, played, cleared,
                   streamCloses, notPlayer>>

\* terminate(): with self.lock: self.queue.clear()
terminate_clear(t) ==
    /\ lock = "free"
    /\ queue' = <<>>
    /\ cleared' = cleared + 1
    /\ pc' = [pc EXCEPT ![t] = "terminate_stop"]
    /\ UNCHANGED <<lock, playing, stream, cb, raised,
                   added, played, sinceStop, streamCloses, notPlayer>>

\* terminate(): self.stream.stop()
terminate_stop(t) ==
    /\ pc[t] = "terminate_stop"
    /\ cb.pc = "idle"
    /\ stream' = IF stream = "active" THEN "stopped" ELSE stream
    /\ pc' = [pc EXCEPT ![t] = "terminate_close"]
    /\ UNCHANGED <<queue, lock, playing, cb, raised,
                   added, played, cleared, sinceStop, streamCloses, notPlayer>>

\* terminate(): self.stream.close()
terminate_close(t) ==
    /\ pc[t] = "terminate_close"
    /\ cb.pc = "idle"
    /\ stream' = "closed"
    /\ streamCloses' = streamCloses + 1
    /\ Return(t, "terminate")
    /\ UNCHANGED <<queue, lock, playing, cb, raised,
                   added, played, cleared, sinceStop, notPlayer>>

\* ---------------------------------------------------------------- VoiceLiveConnection
\* connect(): build the WebSocketApp and start run_forever in a daemon thread
connect_start(t) ==
    /\ ws' = "app"
    /\ io' = "connecting"
    /\ pc' = [pc EXCEPT ![t] = "connect_wait"]
    /\ UNCHANGED <<connected, sock, message_queue, outbox, raised, chvars, notConn>>

\* connect(): the polling loop; it ends when _connected is seen, or when the
\* 10 s have passed without seeing it, which raises ConnectionError
connect_wait(t) ==
    /\ pc[t] = "connect_wait"
    /\ \/ /\ connected
          /\ Return(t, "connect")
          /\ UNCHANGED raised
       \/ /\ ~connected
          /\ Raise(t, "connect")
    /\ UNCHANGED <<cvars, chvars, notConn>>

\* I/O thread: the socket opens, on_open sets _connected
on_open ==
    /\ io = "connecting"
    /\ sock' = "open"
    /\ connected' = TRUE
    /\ io' = "running"
    /\ UNCHANGED <<ws, message_queue, outbox, pc, raised, chvars, notConn>>

\* I/O thread: the endpoint cannot be reached; on_error, then on_close
on_error ==
    /\ io = "connecting"
    /\ connected' = FALSE
    /\ io' = "ended"
    /\ UNCHANGED <<ws, sock, message_queue, outbox, pc, raised, chvars, notConn>>

\* I/O thread: on_message puts the text on the inbound queue
on_message(message) ==
    /\ io = "running"
    /\ sock = "open"
    /\ message_queue' = Append(message_queue, message)
    /\ pushed' = Append(pushed, message)
    /\ UNCHANGED <<ws, connected, sock, io, outbox, pc, raised,
                   received, sent, closeCalls, notConn>>

\* the peer closes the socket (or the network drops it)
peer_close ==
    /\ io = "running"
    /\ sock = "open"
    /\ sock' = "closed"
    /\ io' = "closing"
    /\ UNCHANGED <<ws, connected, message_queue, outbox, pc, raised, chvars, notConn>>

\* I/O thread: run_forever ends and calls on_close, which clears _connected
on_close ==
    /\ io = "closing"
    /\ connected' = FALSE
    /\ io' = "ended"
    /\ UNCHANGED <<ws, sock, message_queue, outbox, pc, raised, chvars, notConn>>

\* a mutant of QueueGet: the newest message is taken
QueueGetNewest(q) == [item |-> q[Len(q)], rest |-> SubSeq(q, 1, Len(q) - 1)]

\* queue.Queue.get on a non-empty queue: the oldest message
QueueGet(q) == [item |-> Head(q), rest |-> Tail(q)]

\* a mutant of recv: get() without a timeout waits for a message
recv_blocking(t, got, empty) ==
    /\ message_queue # <<>>
    /\ message_queue' = QueueGet(message_queue).rest
    /\ received' = Append(received, QueueGet(message_queue).item)
    /\ pc' = [pc EXCEPT ![t] = got]
    /\ UNCHANGED <<ws, connected, sock, io, outbox, raised, pushed, sent,
                   closeCalls, notConn>>

\* recv(): the oldest queued message, or None when the queue stayed empty for
\* the timeout; the caller continues at `got` with a message, at `empty` with None
recv(t, got, empty) ==
    /\ IF message_queue = <<>>
       THEN /\ pc' = [pc EXCEPT ![t] = empty]
            /\ UNCHANGED <<message_queue, received>>
       ELSE /\ message_queue' = QueueGet(message_queue).rest
            /\ received' = Append(received, QueueGet(message_queue).item)
            /\ pc' = [pc EXCEPT ![t] = got]
    /\ UNCHANGED <<ws, connected, sock, io, outbox, raised, pushed, sent,
                   closeCalls, notConn>>

\* send(): the test `self._ws and self._connected`; a message for a
\* connection that is not connected is dropped
send_check(t, message) ==
    /\ IF ws # None /\ connected
       THEN /\ outbox' = [outbox EXCEPT ![t] = message]
            /\ pc' = [pc EXCEPT ![t] = "send_write"]
       ELSE /\ Return(t, "send")
            /\ UNCHANGED outbox
    /\ UNCHANGED <<ws, connected, sock, io, message_queue, raised,
                   pushed, received, sent, closeCalls, notConn>>

\* send(): self._ws.send(message); WebSocketApp.send raises
\* WebSocketConnectionClosedException when its socket is gone
send_write(t) ==
    /\ pc[t] = "send_write"
    /\ outbox' = [outbox EXCEPT ![t] = OutMsg("", <<>>)]
    /\ IF sock = "open"
       THEN /\ sent' = Append(sent, outbox[t])
            /\ Return(t, "send")
            /\ UNCHANGED raised
       ELSE /\ Raise(t, "send")
            /\ UNCHANGED sent
    /\ UNCHANGED <<ws, connected, sock, io, message_queue,
                   pushed, received, closeCalls, notConn>>

\* close(): if self._ws: self._ws.close(), which closes the socket and lets
\* run_forever end; without a WebSocketApp close() does nothing
close_socket(t) ==
    /\ IF ws # None
       THEN /\ sock' = IF sock = "open" THEN "closed" ELSE sock
            /\ io' = IF io \in {"connecting", "running"} THEN "closing" ELSE io
            /\ closeCalls' = closeCalls + 1
            /\ pc' = [pc EXCEPT ![t] = "close_flag"]
       ELSE /\ Return(t, "close")
            /\ UNCHANGED <<sock, io, closeCalls>>
    /\ UNCHANGED <<ws, connected, message_queue, outbox, raised,
                   pushed, received, sent, notConn>>

\* a mutant of close_flag: _connected is left as it is
close_noflag(t) ==
    /\ pc[t] = "close_flag"
    /\ Return(t, "close")
    /\ UNCHANGED <<cvars, raised, chvars, notConn>>

\* close(): self._connected = False
close_flag(t) ==
    /\ pc[t] = "close_flag"
    /\ connected' = FALSE
    /\ Return(t, "close")
    /\ UNCHANGED <<ws, sock, io, message_queue, outbox, raised, chvars, notConn>>

\* The state after VoiceLiveConnection.__init__, used by one client thread
\* ("api"), the socket I/O thread and the peer.
ConnInit ==
    /\ ws = None
    /\ connected = FALSE
    /\ sock = "none"
    /\ io = "idle"
    /\ message_queue = <<>>
    /\ outbox = [t \in Threads |-> OutMsg("", <<>>)]

ConnHistInit ==
    /\ pushed = <<>>
    /\ received = <<>>
    /\ sent = <<>>
    /\ closeCalls = 0

\* ---------------------------------------------------------------- VoiceLiveService
\* the state after VoiceLiveService.__init__
ServiceInit ==
    /\ running = FALSE
    /\ stop_event = FALSE
    /\ audio_player = None
    /\ connection = None
    /\ threads = <<>>
    /\ events = <<>>
    /\ ev = NoMsg
    /\ last_audio_item_id = None
    /\ mic = "none"
    /\ micReads = 0
    /\ micBuf = <<>>
    /\ voice_ws = "none"
    /\ session_task = "none"
    /\ started = FALSE
    /\ nStops = 0
    /\ stopLog = <<>>
    /\ bargeIns = 0
    /\ flushMark = 0

\* ---------------------------------------------------------------- player alone
\* The state after AudioPlayerAsync.__init__, used by one client thread
\* ("api") and the device's callback thread.
PlayerInit ==
    /\ queue = <<>>
    /\ lock = "free"
    /\ playing = FALSE
    /\ stream = "stopped"
    /\ cb = [pc |-> "idle", frames |-> 0, out |-> <<>>]

HistInit ==
    /\ added = <<>>
    /\ played = <<>>
    /\ cleared = 0
    /\ sinceStop = FALSE
    /\ streamCloses = 0

\* the next chunk: fresh, distinct, non-zero sample values, so that the
\* position of every sample in the stream can be told from its value
NextChunk(len) == [i \in 1..len |-> Len(added) + i]

\* byte strings a caller may pass: whole chunks, and one with a byte missing
ChunkBytes ==
    {ToBytes(NextChunk(len)) : len \in 0..MaxChunk}
        \cup {Take(ToBytes(NextChunk(1)), 1)}

ApiAddData ==
    /\ pc["api"] = "idle"
    /\ nApi < MaxPlayerCalls
    /\ nApi' = nApi + 1
    /\ \E data \in ChunkBytes : add_data("api", data)

ApiStop ==
    /\ pc["api"] = "idle"
    /\ nApi < MaxPlayerCalls
    /\ nApi' = nApi + 1
    /\ stop_clear("api")

ApiTerminate ==
    /\ pc["api"] = "idle"
    /\ nApi < MaxPlayerCalls
    /\ nApi' = nApi + 1
    /\ terminate_clear("api")

DeviceCallback == \E frames \in 1..MaxFrames : callback(frames)

\* the session's stream asks for blocksize frames every time
SessionCallback == callback(BlockSize)

InitPlayer ==
    /\ PlayerInit
    /\ HistInit
    /\ ConnInit
    /\ ConnHistInit
    /\ pc = [t \in Threads |-> "idle"]
    /\ raised = {}
    /\ nApi = 0
    /\ ServiceInit

NextPlayer ==
    \/ ApiAddData /\ UNCHANGED svars
    \/ stream_start("api") /\ UNCHANGED <<nApi, svars>>
    \/ ApiStop /\ UNCHANGED svars
    \/ stop_halt("api") /\ UNCHANGED <<nApi, svars>>
    \/ ApiTerminate /\ UNCHANGED svars
    \/ terminate_stop("api") /\ UNCHANGED <<nApi, svars>>
    \/ terminate_close("api") /\ UNCHANGED <<nApi, svars>>
    \/ DeviceCallback /\ UNCHANGED <<nApi, svars>>
    \/ callback_write /\ UNCHANGED <<nApi, svars>>

SpecPlayer == InitPlayer /\ [][NextPlayer]_vars

\* ---------------------------------------------------------------- connection alone
\* messages the peer may send on the stand-alone connection
ConnMsgs == {SpeechStarted, ErrorEvent}

ApiConnect ==
    /\ pc["api"] = "idle"
    /\ ws = None
    /\ connect_start("api")
    /\ UNCHANGED nApi

ApiRecv ==
    /\ pc["api"] = "idle"
    /\ nApi < MaxConnCalls
    /\ recv("api", "idle", "idle")
    /\ nApi' = nApi + 1

ApiSend ==
    /\ pc["api"] = "idle"
    /\ nApi < MaxConnCalls
    /\ send_check("api", OutMsg("session.update", <<>>))
    /\ nApi' = nApi + 1

ApiClose ==
    /\ pc["api"] = "idle"
    /\ nApi < MaxConnCalls
    /\ close_socket("api")
    /\ nApi' = nApi + 1

PeerMessage ==
    /\ Len(pushed) < MaxConnMsgs
    /\ \E message \in ConnMsgs : on_message(message)
    /\ UNCHANGED nApi

InitConn ==
    /\ ConnInit
    /\ ConnHistInit
    /\ PlayerInit
    /\ HistInit
    /\ pc = [t \in Threads |-> "idle"]
    /\ raised = {}
    /\ nApi = 0
    /\ ServiceInit

NextConn ==
    \/ ApiConnect /\ UNCHANGED svars
    \/ connect_wait("api") /\ UNCHANGED <<nApi, svars>>
    \/ on_open /\ UNCHANGED <<nApi, svars>>
    \/ on_error /\ UNCHANGED <<nApi, svars>>
    \/ PeerMessage /\ UNCHANGED svars
    \/ peer_close /\ UNCHANGED <<nApi, svars>>
    \/ on_close /\ UNCHANGED <<nApi, svars>>
    \/ ApiRecv /\ UNCHANGED svars
    \/ ApiSend /\ UNCHANGED svars
    \/ send_write("api") /\ UNCHANGED <<nApi, svars>>
    \/ ApiClose /\ UNCHANGED svars
    \/ close_flag("api") /\ UNCHANGED <<nApi, svars>>

SpecConn == InitConn /\ [][NextConn]_vars

\* ---- the receive loop (_receive_audio_and_playback)
\* a mutant of Handling: speech_started is forwarded without flushing the player
HandlingNoFlush(e) ==
    LET out(act, kind, data) == [act |-> act, kind |-> kind, data |-> data]
        text == IF e.keys = {} THEN <<>> ELSE e.payload
    IN  IF e.form = "garbage" THEN out("skip", "", <<>>)
        ELSE IF e.form # "object" THEN out("raise", "", <<>>)
        ELSE CASE e.type = "session.created" ->
                    IF "session" \in e.keys
                    THEN out("observe", "session_created", e.payload)
                    ELSE out("raise", "", <<>>)
               [] e.type = "conversation.item.input_audio_transcription.completed" ->
                    out("observe", "user_transcript", text)
               [] e.type = "response.text.done" ->
                    out("observe", "agent_text", text)
               [] e.type = "response.audio_transcript.done" ->
                    out("observe", "agent_audio_transcript", text)
               [] e.type = "response.audio.delta" ->
                    IF "delta" \notin e.keys THEN out("skip", "", <<>>)
                    ELSE IF ~B64Valid(e.payload) THEN out("raise", "", <<>>)
                    ELSE IF B64Decode(e.payload) # <<>> /\ audio_player # None
                    THEN out("add", "", B64Decode(e.payload))
                    ELSE out("skip", "", <<>>)
               [] e.type = "input_audio_buffer.speech_started" ->
                    out("notify", "", <<>>)
               [] e.type = "error" ->
                    out("observe", "error", text)
               [] OTHER -> out("skip", "", <<>>)

\* a mutant of Handling: a server-sent error event ends the loop
HandlingErrorFatal(e) ==
    LET out(act, kind, data) == [act |-> act, kind |-> kind, data |-> data]
        text == IF e.keys = {} THEN <<>> ELSE e.payload
    IN  IF e.form = "garbage" THEN out("skip", "", <<>>)
        ELSE IF e.form # "object" THEN out("raise", "", <<>>)
        ELSE CASE e.type = "session.created" ->
                    IF "session" \in e.keys
                    THEN out("observe", "session_created", e.payload)
                    ELSE out("raise", "", <<>>)
               [] e.type = "conversation.item.input_audio_transcription.completed" ->
                    out("observe", "user_transcript", text)
               [] e.type = "response.text.done" ->
                    out("observe", "agent_text", text)
               [] e.type = "response.audio_transcript.done" ->
                    out("observe", "agent_audio_transcript", text)
               [] e.type = "response.audio.delta" ->
                    IF "delta" \notin e.keys THEN out("skip", "", <<>>)
                    ELSE IF ~B64Valid(e.payload) THEN out("raise", "", <<>>)
                    ELSE IF B64Decode(e.payload) # <<>> /\ audio_player # None
                    THEN out("add", "", B64Decode(e.payload))
                    ELSE out("skip", "", <<>>)
               [] e.type = "input_audio_buffer.speech_started" ->
                    IF audio_player # None
                    THEN out("stop", "", <<>>)
                    ELSE out("notify", "", <<>>)
               [] e.type = "error" ->
                    out("raise", "", <<>>)
               [] OTHER -> out("skip", "", <<>>)

\* a mutant of Handling: a user transcript flushes the player
HandlingTranscriptFlush(e) ==
    LET out(act, kind, data) == [act |-> act, kind |-> kind, data |-> data]
        text == IF e.keys = {} THEN <<>> ELSE e.payload
    IN  IF e.form = "garbage" THEN out("skip", "", <<>>)
        ELSE IF e.form # "object" THEN out("raise", "", <<>>)
        ELSE CASE e.type = "session.created" ->
                    IF "session" \in e.keys
                    THEN out("observe", "session_created", e.payload)
                    ELSE out("raise", "", <<>>)
               [] e.type = "conversation.item.input_audio_transcription.completed" ->
                    out("stop", "", <<>>)
               [] e.type = "response.text.done" ->
                    out("observe", "agent_text", text)
               [] e.type = "response.audio_transcript.done" ->
                    out("observe", "agent_audio_transcript", text)
               [] e.type = "response.audio.delta" ->
                    IF "delta" \notin e.keys THEN out("skip", "", <<>>)
                    ELSE IF ~B64Valid(e.payload) THEN out("raise", "", <<>>)
                    ELSE IF B64Decode(e.payload) # <<>> /\ audio_player # None
                    THEN out("add", "", B64Decode(e.payload))
                    ELSE out("skip", "", <<>>)
               [] e.type = "input_audio_buffer.speech_started" ->
                    IF audio_player # None
                    THEN out("stop", "", <<>>)
                    ELSE out("notify", "", <<>>)
               [] e.type = "error" ->
                    out("observe", "error", text)
               [] OTHER -> out("skip", "", <<>>)

\* a mutant of Handling: an event of an unknown type is reported as an error
HandlingUnknownReported(e) ==
    LET out(act, kind, data) == [act |-> act, kind |-> kind, data |-> data]
        text == IF e.keys = {} THEN <<>> ELSE e.payload
    IN  IF e.form = "garbage" THEN out("skip", "", <<>>)
        ELSE IF e.form # "object" THEN out("raise", "", <<>>)
        ELSE CASE e.type = "session.created" ->
                    IF "session" \in e.keys
                    THEN out("observe", "session_created", e.payload)
                    ELSE out("raise", "", <<>>)
               [] e.type = "conversation.item.input_audio_transcription.completed" ->
                    out("observe", "user_transcript", text)
               [] e.type = "response.text.done" ->
                    out("observe", "agent_text", text)
               [] e.type = "response.audio_transcript.done" ->
                    out("observe", "agent_audio_transcript", text)
               [] e.type = "response.audio.delta" ->
                    IF "delta" \notin e.keys THEN out("skip", "", <<>>)
                    ELSE IF ~B64Valid(e.payload) THEN out("raise", "", <<>>)
                    ELSE IF B64Decode(e.payload) # <<>> /\ audio_player # None
                    THEN out("add", "", B64Decode(e.payload))
                    ELSE out("skip", "", <<>>)
               [] e.type = "input_audio_buffer.speech_started" ->
                    IF audio_player # None
                    THEN out("stop", "", <<>>)
                    ELSE out("notify", "", <<>>)
               [] e.type = "error" ->
                    out("observe", "error", text)
               [] OTHER -> out("observe", "error", <<>>)

\* what the handler does with event e: call the observer ("observe"), add
\* audio ("add"), flush the player ("stop"), only notify ("notify"), nothing
\* ("skip"), or leave the loop with an exception ("raise")
Handling(e) ==
    LET out(act, kind, data) == [act |-> act, kind |-> kind, data |-> data]
        text == IF e.keys = {} THEN <<>> ELSE e.payload
    IN  IF e.form = "garbage" THEN out("skip", "", <<>>)
        ELSE IF e.form # "object" THEN out("raise", "", <<>>)
        ELSE CASE e.type = "session.created" ->
                    IF "session" \in e.keys
                    THEN out("observe", "session_created", e.payload)
                    ELSE out("raise", "", <<>>)
               [] e.type = "conversation.item.input_audio_transcription.completed" ->
                    out("observe", "user_transcript", text)
               [] e.type = "response.text.done" ->
                    out("observe", "agent_text", text)
               [] e.type = "response.audio_transcript.done" ->
                    out("observe", "agent_audio_transcript", text)
               [] e.type = "response.audio.delta" ->
                    IF "delta" \notin e.keys THEN out("skip", "", <<>>)
                    ELSE IF ~B64Valid(e.payload) THEN out("raise", "", <<>>)
                    ELSE IF B64Decode(e.payload) # <<>> /\ audio_player # None
                    THEN out("add", "", B64Decode(e.payload))
                    ELSE out("skip", "", <<>>)
               [] e.type = "input_audio_buffer.speech_started" ->
                    IF audio_player # None
                    THEN out("stop", "", <<>>)
                    ELSE out("notify", "", <<>>)
               [] e.type = "error" ->
                    out("observe", "error", text)
               [] OTHER -> out("skip", "", <<>>)

\* a mutant of receive_loop: the loop condition is not looked at
receive_loop_deaf ==
    /\ pc["recv"] = "loop"
    /\ pc' = [pc EXCEPT !["recv"] = "recv"]
    /\ UNCHANGED <<pvars, cvars, raised, hvars, chvars, nApi, svars>>

\* while not stop_event.is_set() and self.running
receive_loop ==
    /\ pc["recv"] = "loop"
    /\ pc' = [pc EXCEPT !["recv"] = IF ~stop_event /\ running THEN "recv" ELSE "finally"]
    /\ UNCHANGED <<pvars, cvars, raised, hvars, chvars, nApi, svars>>

\* raw_event = self.connection.recv() if self.connection else None;
\* None: continue
receive_recv ==
    /\ pc["recv"] = "recv"
    /\ IF connection = None
       THEN /\ pc' = [pc EXCEPT !["recv"] = "loop"]
            /\ ev' = NoMsg
            /\ UNCHANGED <<pvars, cvars, raised, hvars, chvars>>
       ELSE /\ recv("recv", "dispatch", "loop")
            /\ ev' = IF message_queue = <<>> THEN NoMsg ELSE QueueGet(message_queue).item
    /\ UNCHANGED <<nApi, flags, refs, last_audio_item_id, capvars, events, shist, webvars>>

\* a mutant of receive_dispatch: a new item id flushes the playback queue
receive_dispatch_reset ==
    /\ pc["recv"] = "dispatch"
    /\ LET h == Handling(ev) IN
       /\ last_audio_item_id' =
              IF ev.form = "object" /\ ev.type = "response.audio.delta"
              THEN (IF "item_id" \in ev.keys THEN ev.item_id ELSE None)
              ELSE last_audio_item_id
       /\ events' = IF h.act = "observe"
                    THEN Append(events, [kind |-> h.kind, data |-> h.data])
                    ELSE events
       /\ raised' = IF h.act = "raise" THEN raised \cup {<<"recv", "dispatch">>} ELSE raised
       /\ pc' = [pc EXCEPT !["recv"] =
                    CASE h.act = "add" -> "add_data"
                      [] h.act = "stop" -> "stop"
                      [] h.act = "notify" -> "notify_speech_started"
                      [] h.act = "raise" -> "finally"
                      [] OTHER -> "loop"]
    /\ queue' = IF ev.form = "object" /\ ev.type = "response.audio.delta"
                       /\ ev.item_id # last_audio_item_id
                 THEN <<>> ELSE queue
    /\ UNCHANGED <<lock, playing, stream, cb, cvars, hvars, chvars, nApi, flags, refs,
                   ev, capvars, shist, webvars>>

\* json.loads and the if/elif chain, up to the first call into the player
receive_dispatch ==
    /\ pc["recv"] = "dispatch"
    /\ LET h == Handling(ev) IN
       /\ last_audio_item_id' =
              IF ev.form = "object" /\ ev.type = "response.audio.delta"
              THEN (IF "item_id" \in ev.keys THEN ev.item_id ELSE None)
              ELSE last_audio_item_id
       /\ events' = IF h.act = "observe"
                    THEN Append(events, [kind |-> h.kind, data |-> h.data])
                    ELSE events
       /\ raised' = IF h.act = "raise" THEN raised \cup {<<"recv", "dispatch">>} ELSE raised
       /\ pc' = [pc EXCEPT !["recv"] =
                    CASE h.act = "add" -> "add_data"
                      [] h.act = "stop" -> "stop"
                      [] h.act = "notify" -> "notify_speech_started"
                      [] h.act = "raise" -> "finally"
                      [] OTHER -> "loop"]
    /\ UNCHANGED <<pvars, cvars, hvars, chvars, nApi, flags, refs, ev, capvars, shist, webvars>>

\* self.audio_player.add_data(bytes_data)
receive_add_data ==
    /\ pc["recv"] = "add_data"
    /\ add_data("recv", B64Decode(ev.payload))
    /\ UNCHANGED <<nApi, svars>>

\* speech_started: self.audio_player.stop(), first statement
receive_stop ==
    /\ pc["recv"] = "stop"
    /\ stop_clear("recv")
    /\ UNCHANGED <<nApi, svars>>

\* speech_started: self.audio_player.stop() returns
receive_stop_halt ==
    /\ stop_halt("recv")
    /\ bargeIns' = bargeIns + 1
    /\ flushMark' = IF added = <<>> THEN 0 ELSE added[Len(added)]
    /\ UNCHANGED <<nApi, flags, refs, rvars, capvars, events,
                   started, nStops, stopLog, webvars>>

\* speech_started: self.callback_handler("speech_started", {})
receive_notify ==
    /\ pc["recv"] = "notify_speech_started"
    /\ events' = Append(events, [kind |-> "speech_started", data |-> <<>>])
    /\ pc' = [pc EXCEPT !["recv"] = "loop"]
    /\ UNCHANGED <<pvars, cvars, raised, hvars, chvars, nApi,
                   flags, refs, rvars, capvars, shist, webvars>>

\* finally: if self.audio_player: self.audio_player.terminate()
receive_finally ==
    /\ pc["recv"] = "finally"
    /\ IF audio_player # None
       THEN terminate_clear("recv")
       ELSE /\ pc' = [pc EXCEPT !["recv"] = "done"]
            /\ UNCHANGED <<pvars, cvars, raised, hvars, chvars>>
    /\ UNCHANGED <<nApi, svars>>

\* ---- the capture loop (_listen_and_send_audio)
\* the k-th microphone frame
FrameOf(k) == [i \in 1..ReadSize |-> k]

AppendMsg(frame) == OutMsg("input_audio_buffer.append", B64Encode(ToBytes(frame)))

\* stream = sd.InputStream(...); stream.start()
capture_open ==
    /\ pc["send"] = "cap_open"
    /\ mic' = "started"
    /\ pc' = [pc EXCEPT !["send"] = "cap_loop"]
    /\ UNCHANGED <<pvars, cvars, raised, hvars, chvars, nApi,
                   flags, refs, rvars, micReads, micBuf, events, shist, webvars>>

\* sd.InputStream(...) raises (no input device): the statement is outside the
\* try, the worker ends with the exception and no device was opened
capture_no_device ==
    /\ pc["send"] = "cap_open"
    /\ pc' = [pc EXCEPT !["send"] = "done"]
    /\ raised' = raised \cup {<<"send", "open">>}
    /\ UNCHANGED <<pvars, cvars, hvars, chvars, nApi, svars>>

\* the device is opened but stream.start() raises: except, then finally
capture_start_fails ==
    /\ pc["send"] = "cap_open"
    /\ mic' = "opened"
    /\ Raise("send", "start")
    /\ UNCHANGED <<pvars, cvars, hvars, chvars, nApi,
                   flags, refs, rvars, micReads, micBuf, events, shist, webvars>>

\* stream.read_available or stream.read raises: except, then finally
capture_read_fails ==
    /\ pc["send"] = "cap_read"
    /\ Raise("send", "read")
    /\ UNCHANGED <<pvars, cvars, hvars, chvars, nApi, svars>>

\* while not stop_event.is_set() and self.running
capture_loop ==
    /\ pc["send"] = "cap_loop"
    /\ pc' = [pc EXCEPT !["send"] = IF ~stop_event /\ running THEN "cap_read" ELSE "cap_finally"]
    /\ UNCHANGED <<pvars, cvars, raised, hvars, chvars, nApi, svars>>

\* a frame is available: read it, encode it, and if self.connection: send
capture_send ==
    /\ pc["send"] = "cap_read"
    /\ micReads < MaxMicFrames
    /\ micReads' = micReads + 1
    /\ IF connection # None
       THEN send_check("send", AppendMsg(FrameOf(micReads + 1)))
       ELSE /\ pc' = [pc EXCEPT !["send"] = "cap_loop"]
            /\ UNCHANGED <<pvars, cvars, raised, hvars, chvars>>
    /\ UNCHANGED <<nApi, flags, refs, rvars, mic, micBuf, events, shist, webvars>>

\* less than a frame is available: time.sleep(0.001)
capture_sleep ==
    /\ pc["send"] = "cap_read"
    /\ pc' = [pc EXCEPT !["send"] = "cap_loop"]
    /\ UNCHANGED <<pvars, cvars, raised, hvars, chvars, nApi, svars>>

\* ---- the capture loop with the input stream's buffer made explicit
\* the device puts the next sample into the input stream's buffer; samples
\* are numbered in the order the microphone delivers them
SamplesArrived == micReads * ReadSize + Len(micBuf)

mic_arrives ==
    /\ mic = "started"
    /\ SamplesArrived < MaxMicSamples
    /\ micBuf' = Append(micBuf, SamplesArrived + 1)
    /\ UNCHANGED <<pvars, cvars, raised, hvars, chvars, pc, nApi,
                   flags, refs, rvars, mic, micReads, events, shist, webvars>>

\* a mutant of capture_send_frame: everything that is available is read and sent
capture_send_available ==
    /\ pc["send"] = "cap_read"
    /\ Len(micBuf) >= ReadSize
    /\ micBuf' = <<>>
    /\ micReads' = micReads + 1
    /\ IF connection # None
       THEN send_check("send", AppendMsg(micBuf))
       ELSE /\ pc' = [pc EXCEPT !["send"] = "cap_loop"]
            /\ UNCHANGED <<pvars, cvars, raised, hvars, chvars>>
    /\ UNCHANGED <<nApi, flags, refs, rvars, mic, events, shist, webvars>>

\* if stream.read_available >= read_size: data, _ = stream.read(read_size);
\* encode; if self.connection: self.connection.send(data_json)
capture_send_frame ==
    /\ pc["send"] = "cap_read"
    /\ Len(micBuf) >= ReadSize
    /\ micBuf' = Drop(micBuf, ReadSize)
    /\ micReads' = micReads + 1
    /\ IF connection # None
       THEN send_check("send", AppendMsg(Take(micBuf, ReadSize)))
       ELSE /\ pc' = [pc EXCEPT !["send"] = "cap_loop"]
            /\ UNCHANGED <<pvars, cvars, raised, hvars, chvars>>
    /\ UNCHANGED <<nApi, flags, refs, rvars, mic, events, shist, webvars>>

\* else: time.sleep(0.001)
capture_sleep_short ==
    /\ pc["send"] = "cap_read"
    /\ Len(micBuf) < ReadSize
    /\ pc' = [pc EXCEPT !["send"] = "cap_loop"]
    /\ UNCHANGED <<pvars, cvars, raised, hvars, chvars, nApi, svars>>

\* a mutant of capture_finally: the worker ends without closing the device
capture_leak ==
    /\ pc["send"] = "cap_finally"
    /\ pc' = [pc EXCEPT !["send"] = "done"]
    /\ UNCHANGED <<pvars, cvars, raised, hvars, chvars, nApi, svars>>

\* finally: stream.stop(); stream.close()
capture_finally ==
    /\ pc["send"] = "cap_finally"
    /\ mic' = "closed"
    /\ pc' = [pc EXCEPT !["send"] = "done"]
    /\ UNCHANGED <<pvars, cvars, raised, hvars, chvars, nApi,
                   flags, refs, rvars, micReads, micBuf, events, shist, webvars>>

\* ---- start_session
\* credentials, then self.client.connect(...), whose first statements build
\* the connection and start its I/O thread
start_session ==
    /\ pc["main"] = "idle"
    /\ ~started
    /\ started' = TRUE
    /\ connect_start("main")
    /\ UNCHANGED <<nApi, flags, refs, rvars, capvars, events,
                   nStops, stopLog, bargeIns, flushMark, webvars>>

\* credential.get_token raises: the except clause follows
start_no_token ==
    /\ pc["main"] = "idle"
    /\ ~started
    /\ started' = TRUE
    /\ pc' = [pc EXCEPT !["main"] = "start_except"]
    /\ raised' = raised \cup {<<"main", "get_token">>}
    /\ UNCHANGED <<pvars, cvars, hvars, chvars, nApi, flags, refs, rvars, capvars,
                   events, nStops, stopLog, bargeIns, flushMark, webvars>>

\* self.connection = <the connected connection> (the assignment of line 240);
\* the session_update dictionary is built
start_connected ==
    /\ pc["main"] = "configure"
    /\ connection' = "connection"
    /\ pc' = [pc EXCEPT !["main"] = "configure_send"]
    /\ UNCHANGED <<pvars, cvars, raised, hvars, chvars, nApi, flags, audio_player, threads,
                   rvars, capvars, events, shist, webvars>>

\* self.connection.send(json.dumps(session_update))
start_configure ==
    /\ pc["main"] = "configure_send"
    /\ send_check("main", OutMsg("session.update", <<>>))
    /\ UNCHANGED <<nApi, flags, refs, rvars, capvars, events, shist, webvars>>

\* self.callback_handler("session_started", ...)
start_notify ==
    /\ pc["main"] = "notify_started"
    /\ events' = Append(events, [kind |-> "session_started", data |-> <<>>])
    /\ pc' = [pc EXCEPT !["main"] = "launch"]
    /\ UNCHANGED <<pvars, cvars, raised, hvars, chvars, nApi,
                   flags, refs, rvars, capvars, shist, webvars>>

\* self.audio_player = AudioPlayerAsync(); self.running = True;
\* stop_event.clear(); both threads are started; return True
start_launch ==
    /\ pc["main"] = "launch"
    /\ audio_player' = "player"
    /\ queue' = <<>>
    /\ lock' = "free"
    /\ playing' = FALSE
    /\ stream' = "stopped"
    /\ UNCHANGED <<cb>>
    /\ running' = TRUE
    /\ stop_event' = FALSE
    /\ threads' = <<"send", "recv">>
    /\ pc' = [pc EXCEPT !["main"] = "idle", !["send"] = "cap_open", !["recv"] = "loop"]
    /\ UNCHANGED <<cvars, raised, hvars, chvars, nApi, connection,
                   rvars, capvars, events, shist, webvars>>

\* start_session on a service that was started before: as start_session,
\* with a new AzureVoiceLive client and so a new VoiceLiveConnection object
\* (its own _connected, inbound queue and I/O thread); nothing in
\* start_session looks at self.running or at the objects of an earlier start
start_again ==
    /\ pc["main"] = "idle"
    /\ started
    /\ Cardinality({i \in 1..Len(events) : events[i].kind # "session_stopped"}) < MaxStarts
    /\ ws' = "app"
    /\ connected' = FALSE
    /\ sock' = "none"
    /\ io' = "connecting"
    /\ message_queue' = <<>>
    /\ pc' = [pc EXCEPT !["main"] = "connect_wait"]
    /\ UNCHANGED <<outbox, raised, chvars, notConn, nApi, svars>>

\* the end of a later start_session, seen from the workers of the session
\* before it: a new player, self.running = True, stop_event.clear(); the two
\* new threads it starts are not followed, the threads that are still alive
\* go on from where they are
start_relaunch ==
    /\ pc["main"] = "launch"
    /\ nStops > 0
    /\ audio_player' = "player"
    /\ queue' = <<>>
    /\ lock' = "free"
    /\ playing' = FALSE
    /\ stream' = "stopped"
    /\ UNCHANGED <<cb>>
    /\ running' = TRUE
    /\ stop_event' = FALSE
    /\ pc' = [pc EXCEPT !["main"] = "idle"]
    /\ UNCHANGED <<cvars, raised, hvars, chvars, nApi, connection, threads,
                   rvars, capvars, events, shist, webvars>>

\* AudioPlayerAsync() raises (sd.OutputStream finds no output device)
start_player_fails ==
    /\ pc["main"] = "launch"
    /\ pc' = [pc EXCEPT !["main"] = "start_except"]
    /\ raised' = raised \cup {<<"main", "player">>}
    /\ UNCHANGED <<pvars, cvars, hvars, chvars, nApi, svars>>

\* except Exception: callback_handler("error", ...); return False
start_except ==
    /\ pc["main"] = "start_except"
    /\ events' = Append(events, [kind |-> "error", data |-> <<>>])
    /\ pc' = [pc EXCEPT !["main"] = "idle"]
    /\ UNCHANGED <<pvars, cvars, raised, hvars, chvars, nApi,
                   flags, refs, rvars, capvars, shist, webvars>>

\* ---- stop_session
Count(log, x) == Cardinality({i \in 1..Len(log) : log[i] = x})

\* self.running = False; stop_event.set()
stop_session ==
    /\ pc["main"] = "idle"
    /\ started
    /\ nStops < MaxStops
    /\ nStops' = nStops + 1
    /\ running' = FALSE
    /\ stop_event' = TRUE
    /\ stopLog' = <<"signal">>
    /\ pc' = [pc EXCEPT !["main"] = "join"]
    /\ UNCHANGED <<pvars, cvars, raised, hvars, chvars, nApi, refs, rvars, capvars,
                   events, started, bargeIns, flushMark, webvars>>

\* a mutant of stop_joined: the player is not terminated
stop_joined_skip ==
    /\ pc["main"] = "join"
    /\ Count(stopLog, "join") = Len(threads)
    /\ pc' = [pc EXCEPT !["main"] = "close"]
    /\ UNCHANGED <<pvars, cvars, raised, hvars, chvars, nApi, svars>>

\* for thread in self.threads: thread.join(timeout=2), the thread has ended
stop_join ==
    /\ pc["main"] = "join"
    /\ Count(stopLog, "join") < Len(threads)
    /\ pc[threads[Count(stopLog, "join") + 1]] = "done"
    /\ stopLog' = Append(stopLog, "join")
    /\ UNCHANGED <<pvars, cvars, pc, raised, hvars, chvars, nApi, flags, refs, rvars,
                   capvars, events, started, nStops, bargeIns, flushMark, webvars>>

\* thread.join(timeout=2), the two seconds pass before the thread ends
stop_join_timeout ==
    /\ pc["main"] = "join"
    /\ Count(stopLog, "join") < Len(threads)
    /\ pc[threads[Count(stopLog, "join") + 1]] # "done"
    /\ stopLog' = Append(stopLog, "join")
    /\ UNCHANGED <<pvars, cvars, pc, raised, hvars, chvars, nApi, flags, refs, rvars,
                   capvars, events, started, nStops, bargeIns, flushMark, webvars>>

\* the for loop is over
stop_joined ==
    /\ pc["main"] = "join"
    /\ Count(stopLog, "join") = Len(threads)
    /\ pc' = [pc EXCEPT !["main"] = "terminate"]
    /\ UNCHANGED <<pvars, cvars, raised, hvars, chvars, nApi, svars>>

\* if self.audio_player: self.audio_player.terminate()
stop_terminate ==
    /\ pc["main"] = "terminate"
    /\ IF audio_player # None
       THEN terminate_clear("main")
       ELSE /\ pc' = [pc EXCEPT !["main"] = "close"]
            /\ UNCHANGED <<pvars, cvars, raised, hvars, chvars>>
    /\ UNCHANGED <<nApi, svars>>

\* terminate() returns
stop_terminated ==
    /\ terminate_close("main")
    /\ stopLog' = Append(stopLog, "terminate")
    /\ UNCHANGED <<nApi, flags, refs, rvars, capvars, events,
                   started, nStops, bargeIns, flushMark, webvars>>

\* if self.connection: self.connection.close()
stop_close ==
    /\ pc["main"] = "close"
    /\ IF connection # None
       THEN /\ close_socket("main")
            /\ stopLog' = Append(stopLog, "close")
       ELSE /\ pc' = [pc EXCEPT !["main"] = "notify_stopped"]
            /\ UNCHANGED <<pvars, cvars, raised, hvars, chvars, stopLog, webvars>>
    /\ UNCHANGED <<nApi, flags, refs, rvars, capvars, events,
                   started, nStops, bargeIns, flushMark, webvars>>

\* self.callback_handler("session_stopped", {})
stop_notify ==
    /\ pc["main"] = "notify_stopped"
    /\ events' = Append(events, [kind |-> "session_stopped", data |-> <<>>])
    /\ pc' = [pc EXCEPT !["main"] = "idle"]
    /\ UNCHANGED <<pvars, cvars, raised, hvars, chvars, nApi, flags, refs, rvars,
                   capvars, started, nStops, stopLog, bargeIns, flushMark, webvars>>

\* ---------------------------------------------------------------- the session
\* the n-th inbound message carries fresh sample values
ChunkOf(n, len) == [i \in 1..len |-> (n - 1) * MaxChunk + i]

\* messages the peer may send as the n-th message of a session
SessionMsgs(n) == {AudioDelta("A", ChunkOf(n, MaxChunk)), SpeechStarted}

PeerSends ==
    /\ Len(pushed) < MaxMsgs
    /\ \E message \in SessionMsgs(Len(pushed) + 1) : on_message(message)

Init ==
    /\ PlayerInit
    /\ HistInit
    /\ ConnInit
    /\ ConnHistInit
    /\ ServiceInit
    /\ pc = [t \in Threads |-> "idle"]
    /\ raised = {}
    /\ nApi = 0

Next ==
    \/ start_session
    \/ start_no_token
    \/ connect_wait("main") /\ UNCHANGED <<nApi, svars>>
    \/ start_connected
    \/ start_configure
    \/ send_write("main") /\ UNCHANGED <<nApi, svars>>
    \/ start_notify
    \/ start_launch
    \/ start_except
    \/ on_open /\ UNCHANGED <<nApi, svars>>
    \/ on_error /\ UNCHANGED <<nApi, svars>>
    \/ PeerSends /\ UNCHANGED <<nApi, svars>>
    \/ peer_close /\ UNCHANGED <<nApi, svars>>
    \/ on_close /\ UNCHANGED <<nApi, svars>>
    \/ capture_open
    \/ capture_loop
    \/ capture_send
    \/ capture_sleep
    \/ send_write("send") /\ UNCHANGED <<nApi, svars>>
    \/ capture_finally
    \/ receive_loop
    \/ receive_recv
    \/ receive_dispatch
    \/ receive_add_data
    \/ stream_start("recv") /\ UNCHANGED <<nApi, svars>>
    \/ receive_stop
    \/ receive_stop_halt
    \/ receive_notify
    \/ receive_finally
    \/ terminate_stop("recv") /\ UNCHANGED <<nApi, svars>>
    \/ terminate_close("recv") /\ UNCHANGED <<nApi, svars>>
    \/ SessionCallback /\ UNCHANGED <<nApi, svars>>
    \/ callback_write /\ UNCHANGED <<nApi, svars>>
    \/ stop_session
    \/ stop_join
    \/ stop_join_timeout
    \/ stop_joined
    \/ stop_terminate
    \/ terminate_stop("main") /\ UNCHANGED <<nApi, svars>>
    \/ stop_terminated
    \/ stop_close
    \/ close_flag("main") /\ UNCHANGED <<nApi, svars>>
    \/ stop_notify

Spec == Init /\ [][Next]_vars

\* ---------------------------------------------------------------- the session under fair scheduling
\* the steps of the receive worker
RecvSteps ==
    \/ receive_loop
    \/ receive_recv
    \/ receive_dispatch
    \/ receive_add_data
    \/ stream_start("recv") /\ UNCHANGED <<nApi, svars>>
    \/ receive_stop
    \/ receive_stop_halt
    \/ receive_notify
    \/ receive_finally
    \/ terminate_stop("recv") /\ UNCHANGED <<nApi, svars>>
    \/ terminate_close("recv") /\ UNCHANGED <<nApi, svars>>

\* the steps of the capture worker
SendSteps ==
    \/ capture_open
    \/ capture_loop
    \/ capture_send
    \/ capture_sleep
    \/ send_write("send") /\ UNCHANGED <<nApi, svars>>
    \/ capture_finally

\* Both workers are threads the scheduler keeps running, and a callback of
\* the device that has begun completes. The receive worker waits only for a
\* callback in progress (stream.stop, stream.close): the device starts no
\* new callback once it was asked to stop, hence strong fairness.
FairSpec ==
    /\ Spec
    /\ SF_vars(RecvSteps)
    /\ WF_vars(SendSteps)
    /\ WF_vars(callback_write /\ UNCHANGED <<nApi, svars>>)

\* the steps of stop_session after its first one
StopSteps ==
    \/ stop_join
    \/ stop_join_timeout
    \/ stop_joined
    \/ stop_terminate
    \/ terminate_stop("main") /\ UNCHANGED <<nApi, svars>>
    \/ stop_terminated
    \/ stop_close
    \/ close_flag("main") /\ UNCHANGED <<nApi, svars>>
    \/ stop_notify

\* The thread that runs stop_session keeps being scheduled and a callback of
\* the device that has begun completes; nothing is assumed about the workers,
\* which may stall anywhere.
FairStop ==
    /\ Spec
    /\ SF_vars(StopSteps)
    /\ WF_vars(callback_write /\ UNCHANGED <<nApi, svars>>)

\* ---------------------------------------------------------------- the receive loop in detail
\* The session from the return of start_session on: the connection is open,
\* session.update was sent, the player exists and both workers were started.
\* The capture worker is not scheduled here (it shares nothing with the
\* receive loop but the connection it sends on).
InitRecv ==
    /\ PlayerInit
    /\ HistInit
    /\ ws = "app"
    /\ connected = TRUE
    /\ sock = "open"
    /\ io = "running"
    /\ message_queue = <<>>
    /\ outbox = [t \in Threads |-> OutMsg("", <<>>)]
    /\ pushed = <<>>
    /\ received = <<>>
    /\ sent = <<OutMsg("session.update", <<>>)>>
    /\ closeCalls = 0
    /\ running = TRUE
    /\ stop_event = FALSE
    /\ audio_player = "player"
    /\ connection = "connection"
    /\ threads = <<"send", "recv">>
    /\ events = <<[kind |-> "session_started", data |-> <<>>]>>
    /\ ev = NoMsg
    /\ last_audio_item_id = None
    /\ mic = "none"
    /\ micReads = 0
    /\ micBuf = <<>>
    /\ voice_ws = "none"
    /\ session_task = "none"
    /\ started = TRUE
    /\ nStops = 0
    /\ stopLog = <<>>
    /\ bargeIns = 0
    /\ flushMark = 0
    /\ pc = [t \in Threads |->
                CASE t = "send" -> "cap_open" [] t = "recv" -> "loop" [] OTHER -> "idle"]
    /\ raised = {}
    /\ nApi = 0

\* the item ids of the audio deltas sent so far, in order
DeltaItems(log) ==
    LET idx == {i \in 1..Len(log) : log[i].type = "response.audio.delta"}
    IN  {log[i].item_id : i \in idx}

\* the n-th message of the peer: speech_started, or an audio delta of the
\* current response item or of the next one (item "A", then item "B")
RecvMsgs(n) ==
    {SpeechStarted}
        \cup {AudioDelta(id, ChunkOf(n, MaxChunk)) :
                 id \in IF "B" \in DeltaItems(pushed) THEN {"B"} ELSE {"A", "B"}}

PeerSendsAudio ==
    /\ Len(pushed) < MaxRecvMsgs
    /\ \E message \in RecvMsgs(Len(pushed) + 1) : on_message(message)

\* stop_session begins: the cancellation signal is raised. What stop_session
\* does after it (joins, terminate, close) is followed in Spec.
Cancel ==
    /\ nStops = 0
    /\ stop_session

NextRecv ==
    \/ PeerSendsAudio /\ UNCHANGED <<nApi, svars>>
    \/ receive_loop
    \/ receive_recv
    \/ receive_dispatch
    \/ receive_add_data
    \/ stream_start("recv") /\ UNCHANGED <<nApi, svars>>
    \/ receive_stop
    \/ receive_stop_halt
    \/ receive_notify
    \/ receive_finally
    \/ terminate_stop("recv") /\ UNCHANGED <<nApi, svars>>
    \/ terminate_close("recv") /\ UNCHANGED <<nApi, svars>>
    \/ SessionCallback /\ UNCHANGED <<nApi, svars>>
    \/ callback_write /\ UNCHANGED <<nApi, svars>>
    \/ Cancel

SpecRecv == InitRecv /\ [][NextRecv]_vars

\* ---------------------------------------------------------------- the dispatch of inbound messages
\* The receive loop of a started session with every kind of inbound message,
\* while nobody asks the session to stop.
SessionCreated == Msg("session.created", {"session"}, "", <<7>>)

UserTranscript(n) ==
    Msg("conversation.item.input_audio_transcription.completed", {"transcript"}, "", <<n>>)

AgentText(n) == Msg("response.text.done", {"text"}, "", <<n>>)

AgentAudioTranscript(n) == Msg("response.audio_transcript.done", {"transcript"}, "", <<n>>)

\* text that json.loads rejects
Garbage == [NoMsg EXCEPT !.form = "garbage"]

\* JSON that is no object, e.g. a list: event.get raises AttributeError
NonObject == [NoMsg EXCEPT !.form = "value"]

\* session.created without its session member
SessionCreatedBare == Msg("session.created", {}, "", <<>>)

\* an audio delta whose text is not a whole number of base64 groups
BadDelta == Msg("response.audio.delta", {"item_id", "delta"}, "A", <<1, 2, 3>>)

\* the well-formed events of the seven protocol types, as the n-th message
WellFormedMsgs(n) ==
    {SessionCreated, UserTranscript(n), AgentText(n), AgentAudioTranscript(n),
     AudioDelta("A", ChunkOf(n, 1)), SpeechStarted, ErrorEvent}

\* an audio delta whose audio is an odd number of bytes: np.frombuffer raises
OddDelta == Msg("response.audio.delta", {"item_id", "delta"}, "A", B64Encode(<<1>>))

MalformedMsgs == {Garbage, NonObject, SessionCreatedBare, BadDelta, OddDelta}

\* JSON objects whose type is none of the seven the loop knows: another
\* event of the protocol, and an object without a type member
UnknownEvent == Msg("response.done", {"response"}, "", <<9>>)

Untyped == Msg("", {}, "", <<>>)

UnknownMsgs == {UnknownEvent, Untyped}

PeerSendsAny ==
    /\ Len(pushed) < MaxDispatchMsgs
    /\ \E message \in WellFormedMsgs(Len(pushed) + 1) \cup MalformedMsgs \cup UnknownMsgs :
          on_message(message)

NextDispatch ==
    \/ PeerSendsAny /\ UNCHANGED <<nApi, svars>>
    \/ receive_loop
    \/ receive_recv
    \/ receive_dispatch
    \/ receive_add_data
    \/ stream_start("recv") /\ UNCHANGED <<nApi, svars>>
    \/ receive_stop
    \/ receive_stop_halt
    \/ receive_notify
    \/ receive_finally
    \/ terminate_stop("recv") /\ UNCHANGED <<nApi, svars>>
    \/ terminate_close("recv") /\ UNCHANGED <<nApi, svars>>

SpecDispatch == InitRecv /\ [][NextDispatch]_vars

\* ---------------------------------------------------------------- the capture loop in detail
\* The capture worker of a started session, with a microphone that may fail,
\* next to the receive loop, the peer and a stop request.
NextCapture ==
    \/ capture_open
    \/ capture_no_device
    \/ capture_start_fails
    \/ capture_loop
    \/ capture_send
    \/ capture_read_fails
    \/ capture_sleep
    \/ send_write("send") /\ UNCHANGED <<nApi, svars>>
    \/ capture_finally
    \/ peer_close /\ UNCHANGED <<nApi, svars>>
    \/ on_close /\ UNCHANGED <<nApi, svars>>
    \/ Cancel
    \/ PeerSends /\ UNCHANGED <<nApi, svars>>
    \/ receive_loop
    \/ receive_recv
    \/ receive_dispatch
    \/ receive_add_data
    \/ stream_start("recv") /\ UNCHANGED <<nApi, svars>>
    \/ receive_stop
    \/ receive_stop_halt
    \/ receive_notify
    \/ receive_finally
    \/ terminate_stop("recv") /\ UNCHANGED <<nApi, svars>>
    \/ terminate_close("recv") /\ UNCHANGED <<nApi, svars>>

SpecCapture == InitRecv /\ [][NextCapture]_vars

\* ---------------------------------------------------------------- start_session in detail
\* The calls of start_session on one service, with an output device that
\* may be missing and a peer that keeps its sockets open; the workers a start
\* launches are not followed here.
NextStart ==
    \/ start_session
    \/ start_no_token
    \/ start_again
    \/ connect_wait("main") /\ UNCHANGED <<nApi, svars>>
    \/ on_open /\ UNCHANGED <<nApi, svars>>
    \/ on_error /\ UNCHANGED <<nApi, svars>>
    \/ start_connected
    \/ start_configure
    \/ send_write("main") /\ UNCHANGED <<nApi, svars>>
    \/ start_notify
    \/ start_launch
    \/ start_player_fails
    \/ start_except
    \/ PeerSends /\ UNCHANGED <<nApi, svars>>

SpecStart == Init /\ [][NextStart]_vars

\* ---- the audio wire format end to end: a frame read from the microphone is
\* encoded by the capture loop, the peer sends the same text back as an audio
\* delta, and the receive loop decodes it and hands it to the player
CodecSamples == {-32768, -1, 258}

RECURSIVE SeqsUpTo(_, _)
SeqsUpTo(S, n) ==
    IF n = 0 THEN {<<>>}
    ELSE LET shorter == SeqsUpTo(S, n - 1)
         IN  shorter \cup {Append(q, x) : q \in {r \in shorter : Len(r) = n - 1}, x \in S}

\* the frames stream.read can return: int16 samples
CodecFrames == SeqsUpTo(CodecSamples, MaxCodecSamples)

\* data, _ = stream.read(read_size); audio = base64.b64encode(data); send
codec_capture ==
    /\ pc["send"] = "cap_read"
    /\ micReads < MaxCodecFrames
    /\ micReads' = micReads + 1
    /\ \E frame \in CodecFrames :
          IF connection # None
          THEN send_check("send", AppendMsg(frame))
          ELSE /\ pc' = [pc EXCEPT !["send"] = "cap_loop"]
               /\ UNCHANGED <<pvars, cvars, raised, hvars, chvars>>
    /\ UNCHANGED <<nApi, flags, refs, rvars, mic, micBuf, events, shist, webvars>>

\* the peer sends the audio text it received back as an audio delta
PeerEchoes ==
    /\ Len(pushed) + 2 <= Len(sent)
    /\ on_message(Msg("response.audio.delta", {"item_id", "delta"}, "A",
                      sent[Len(pushed) + 2].audio))

NextCodec ==
    \/ capture_open
    \/ capture_loop
    \/ codec_capture
    \/ send_write("send") /\ UNCHANGED <<nApi, svars>>
    \/ PeerEchoes /\ UNCHANGED <<nApi, svars>>
    \/ receive_loop
    \/ receive_recv
    \/ receive_dispatch
    \/ receive_add_data
    \/ stream_start("recv") /\ UNCHANGED <<nApi, svars>>

SpecCodec == InitRecv /\ [][NextCodec]_vars

\* ---- start_session called again on a service whose session is running (as
\* hybrid_bot does for every voice client): the capture worker of the running
\* session goes on while the second start_session connects and configures
NextRestart ==
    \/ start_again
    \/ connect_wait("main") /\ UNCHANGED <<nApi, svars>>
    \/ on_open /\ UNCHANGED <<nApi, svars>>
    \/ start_connected
    \/ start_configure
    \/ send_write("main") /\ UNCHANGED <<nApi, svars>>
    \/ start_notify
    \/ start_launch
    \/ start_except
    \/ capture_open
    \/ capture_loop
    \/ capture_send
    \/ capture_sleep
    \/ send_write("send") /\ UNCHANGED <<nApi, svars>>

SpecRestart == InitRecv /\ [][NextRestart]_vars

\* ---- the capture loop against a microphone that delivers sample by sample,
\* on a connection the peer may close
NextFrames ==
    \/ capture_open
    \/ mic_arrives
    \/ capture_loop
    \/ capture_send_frame
    \/ capture_sleep_short
    \/ send_write("send") /\ UNCHANGED <<nApi, svars>>
    \/ peer_close /\ UNCHANGED <<nApi, svars>>
    \/ on_close /\ UNCHANGED <<nApi, svars>>

SpecFrames == InitRecv /\ [][NextFrames]_vars

\* ---- a session is stopped while its capture worker is still in its loop,
\* and the service is started again
NextResume ==
    \/ capture_open
    \/ capture_loop
    \/ capture_send
    \/ capture_sleep
    \/ send_write("send") /\ UNCHANGED <<nApi, svars>>
    \/ capture_finally
    \/ Cancel
    \/ stop_join
    \/ stop_join_timeout
    \/ stop_joined
    \/ stop_terminate
    \/ terminate_stop("main") /\ UNCHANGED <<nApi, svars>>
    \/ stop_terminated
    \/ stop_close
    \/ close_flag("main") /\ UNCHANGED <<nApi, svars>>
    \/ stop_notify
    \/ start_again
    \/ connect_wait("main") /\ UNCHANGED <<nApi, svars>>
    \/ on_open /\ UNCHANGED <<nApi, svars>>
    \/ on_close /\ UNCHANGED <<nApi, svars>>
    \/ start_connected
    \/ start_configure
    \/ send_write("main") /\ UNCHANGED <<nApi, svars>>
    \/ start_notify
    \/ start_relaunch
    \/ start_except

SpecResume == InitRecv /\ [][NextResume]_vars

\* ---------------------------------------------------------------- HybridBot
\* what the steps of the web layer leave alone
notWeb == <<pvars, cvars, pc, raised, hvars, chvars, nApi,
            flags, refs, rvars, capvars, events, shist>>

\* voice_websocket_handler: a client connects; the service exists, the
\* status message is sent and the session task is created
voice_websocket_handler ==
    /\ voice_ws = "none"
    /\ voice_ws' = "open"
    /\ session_task' = "begin"
    /\ UNCHANGED notWeb

\* the client closes its WebSocket (or the network drops it)
client_close ==
    /\ voice_ws = "open"
    /\ voice_ws' = "closed"
    /\ UNCHANGED <<session_task, notWeb>>

\* _handle_voice_live_session up to its first sleep: the callback is set,
\* 'voice_live_connected' is sent, the task that runs start_session in the
\* executor is created, await asyncio.sleep(2) begins. On a closed WebSocket
\* send_str may raise; the except clause then ends the task before
\* start_session was submitted
session_begin ==
    /\ session_task = "begin"
    /\ \/ session_task' = "startup_wait"
       \/ /\ voice_ws # "open"
          /\ session_task' = "failed"
    /\ UNCHANGED <<voice_ws, notWeb>>

\* the executor thread begins start_session
session_start ==
    /\ session_task \in {"startup_wait", "keep_alive", "stop_wait", "done"}
    /\ start_session

session_start_no_token ==
    /\ session_task \in {"startup_wait", "keep_alive", "stop_wait", "done"}
    /\ start_no_token

\* the two seconds are over: 'voice_live_started' is sent and the keep-alive
\* loop is entered; a send_str that raises ends the task in the outer except
session_startup_elapsed ==
    /\ session_task = "startup_wait"
    /\ \/ session_task' = "keep_alive"
       \/ /\ voice_ws # "open"
          /\ session_task' = "done"
    /\ UNCHANGED <<voice_ws, notWeb>>

\* while self.voice_live_service and self.voice_live_service.running:
\* the loop ends, and with it the task, when running is found false
session_keep_alive_ends ==
    /\ session_task = "keep_alive"
    /\ ~running
    /\ session_task' = "done"
    /\ UNCHANGED <<voice_ws, notWeb>>

\* voice_websocket_handler after its message loop: session_task.cancel().
\* CancelledError is raised where the task is waiting: in the keep-alive
\* loop the inner except clause calls stop_session, at the sleep before it
\* only the outer except clause is around (it logs); a finished task is
\* not affected
handler_cancel ==
    /\ voice_ws = "closed"
    /\ voice_ws' = "handled"
    /\ session_task' = CASE session_task = "begin" -> "failed"
                          [] session_task = "startup_wait" -> "done"
                          [] session_task = "keep_alive" -> "stop_wait"
                          [] OTHER -> session_task
    /\ UNCHANGED notWeb

\* except asyncio.CancelledError: run_in_executor(None, stop_session)
session_stop ==
    /\ session_task = "stop_wait"
    /\ nStops = 0
    /\ stop_session

\* stop_session has returned: raise, the outer except clause logs
session_stop_returns ==
    /\ session_task = "stop_wait"
    /\ nStops > 0
    /\ pc["main"] = "idle"
    /\ session_task' = "done"
    /\ UNCHANGED <<voice_ws, notWeb>>

NextHybrid ==
    \/ voice_websocket_handler
    \/ client_close
    \/ session_begin
    \/ session_start
    \/ session_start_no_token
    \/ session_startup_elapsed
    \/ session_keep_alive_ends
    \/ handler_cancel
    \/ session_stop
    \/ session_stop_returns
    \/ connect_wait("main") /\ UNCHANGED <<nApi, svars>>
    \/ on_open /\ UNCHANGED <<nApi, svars>>
    \/ on_error /\ UNCHANGED <<nApi, svars>>
    \/ on_close /\ UNCHANGED <<nApi, svars>>
    \/ start_connected
    \/ start_configure
    \/ send_write("main") /\ UNCHANGED <<nApi, svars>>
    \/ start_notify
    \/ start_launch
    \/ start_except
    \/ capture_open
    \/ capture_loop
    \/ capture_sleep
    \/ capture_finally
    \/ stop_join
    \/ stop_join_timeout
    \/ stop_joined
    \/ stop_terminate
    \/ terminate_stop("main") /\ UNCHANGED <<nApi, svars>>
    \/ stop_terminated
    \/ stop_close
    \/ close_flag("main") /\ UNCHANGED <<nApi, svars>>
    \/ stop_notify

SpecHybrid == Init /\ [][NextHybrid]_vars

\* ---------------------------------------------------------------- claims: receive loop
EventCount(kind) == Count([i \in 1..Len(events) |-> events[i].kind], kind)

\* the samples that can still reach the device: queued, or taken by a
\* callback that has not handed them over yet
Pending == Flatten(queue) \o cb.out

\* C1: the observer is told 'speech_started' only after the stop() of that
\* message has returned, and from that return on no sample added before the
\* message is queued or on its way to the device.
C1_BargeIn ==
    /\ EventCount("speech_started") <= bargeIns
    /\ pc["recv"] = "notify_speech_started" => bargeIns = EventCount("speech_started") + 1
    /\ \A i \in 1..Len(Pending) : Pending[i] = 0 \/ Pending[i] > flushMark

\* audio was queued and partly played, speech_started flushed the rest and
\* was reported, and newer audio is queued again
C1_Witness ==
    /\ EventCount("speech_started") = 1
    /\ flushMark > 0
    /\ Len(played) > 0
    /\ Len(played) < flushMark
    /\ queue # <<>>

Kinds(log) ==
    [i \in 1..Len(log) |->
        IF log[i].type = "response.audio.delta" THEN log[i].item_id ELSE "speech_started"]

\* the receive loop is between two messages
BetweenMessages == pc["recv"] \in {"loop", "recv"}

\* C3: with no callback consumption and no stop_session: after three deltas
\* of item A and speech_started the queue is empty, and after one more delta
\* of item B it holds exactly that one chunk.
C3_Scenario ==
    (played = <<>> /\ nStops = 0 /\ BetweenMessages) =>
        /\ Kinds(received) = <<"A", "A", "A", "speech_started">> => queue = <<>>
        /\ Kinds(received) = <<"A", "A", "A", "speech_started", "B">> =>
               queue = <<FromBuffer(B64Decode(received[5].payload))>>

\* the whole scenario has been handled
C3_Witness ==
    /\ played = <<>>
    /\ nStops = 0
    /\ BetweenMessages
    /\ Kinds(received) = <<"A", "A", "A", "speech_started", "B">>
    /\ Len(queue) = 1
    /\ cleared = 1
    /\ stream = "active"

\* ---------------------------------------------------------------- claims: player
\* what a callback asking for `frames` samples would hand to the device now
CallbackOut(frames) == PadSilence(DrainLoop(<<>>, queue, frames).data, frames)

\* C2: after add_data calls followed by stop(), and until the next add_data,
\* the queue is empty, playing is false, the device is halted, and a callback
\* would output only silence.
C2_StopLeavesSilence ==
    sinceStop =>
        /\ queue = <<>>
        /\ ~playing
        /\ stream # "active"
        /\ cb.pc = "idle"
        /\ \A frames \in 1..MaxFrames : CallbackOut(frames) = Zeros(frames)

\* a stop() that flushed samples which had been added and not yet played
C2_Witness ==
    /\ sinceStop
    /\ Len(added) > Len(played)
    /\ Len(played) > 0

\* C4: with no stop()/terminate() so far, the samples taken by the callbacks
\* followed by the samples still queued are exactly the samples added, in
\* order: nothing is lost, duplicated or reordered, also across a split chunk.
C4_Fifo ==
    cleared = 0 =>
        /\ played \o Flatten(queue) = added
        /\ IsPrefix(played, added)
        /\ Len(added) = Len(played) + Len(Flatten(queue))

\* chunk <<1, 2>> was split by a one-frame callback and chunk <<3>> was added
\* behind its tail
C4_Witness ==
    /\ cleared = 0
    /\ played = <<1>>
    /\ queue = << <<2>>, <<3>> >>

\* C5: a callback asked for n frames hands out exactly n samples, the first
\* min(n, queued) queued samples in order and then zeros, removes exactly
\* those samples from the queue, and does so whatever the queue holds.
C5_CallbackFills ==
    [][(cb.pc = "idle" /\ cb'.pc = "write") =>
        LET flat == Flatten(queue)
            n == cb'.frames
            k == Min(n, Len(flat))
        IN  /\ Len(cb'.out) = n
            /\ cb'.out = Take(flat, n) \o Zeros(n - k)
            /\ Flatten(queue') = Drop(flat, k)
            /\ played' = played \o Take(flat, n)]_vars

\* an underrun: one queued sample, two frames requested, one zero of padding
C5_Witness ==
    /\ cb.pc = "write"
    /\ cb.frames = 2
    /\ cb.out = <<1, 0>>
    /\ queue = <<>>

\* ---------------------------------------------------------------- claims: connection
\* C9: send never raises because the peer is disconnected, whenever the
\* disconnection happens: no call of send by any thread has raised.
C9_SendNeverRaises == \A t \in Threads : <<t, "send">> \notin raised

\* C10: the messages recv has returned are, in order, a prefix of the messages
\* on_message has pushed, and together with the messages still queued they
\* are all of them: recv alone takes messages out, each once.
C10_InboundFifo ==
    /\ IsPrefix(received, pushed)
    /\ received \o message_queue = pushed

\* two different messages were received while a third one was waiting
C10_Witness ==
    /\ Len(received) = 2
    /\ received[1] # received[2]
    /\ message_queue # <<>>

\* ---------------------------------------------------------------- claims: session
\* C6: in a session lifecycle the output stream is closed once: the close by
\* the receive loop's finally clause and the close by stop_session do not
\* both reach the stream.
C6_ReleasedOnce == streamCloses <= 1

\* C7: a stop_session on a session already stopped is a no-op: 'session_stopped'
\* is reported once, the connection is closed once, nothing is raised.
C7_StopIdempotent ==
    /\ EventCount("session_stopped") <= 1
    /\ closeCalls <= 1
    /\ \A op \in {"terminate", "close"} : <<"main", op>> \notin raised

StopRank(step) ==
    CASE step = "signal" -> 1
      [] step = "join" -> 2
      [] step = "terminate" -> 3
      [] step = "close" -> 4

InTerminate == pc["main"] \in {"terminate", "terminate_stop", "terminate_close"}

InClose == pc["main"] \in {"close", "close_flag", "notify_stopped"}

\* C8: stop_session raises the cancellation signal first, then joins every
\* worker thread, then terminates the player, then closes the connection.
C8_StopOrder ==
    /\ \A i, j \in 1..Len(stopLog) : i < j => StopRank(stopLog[i]) <= StopRank(stopLog[j])
    /\ stopLog # <<>> => stopLog[1] = "signal" /\ ~running /\ stop_event
    /\ (InTerminate \/ InClose) => Count(stopLog, "join") = Len(threads)
    /\ Count(stopLog, "terminate") > 0 => Count(stopLog, "join") = Len(threads)
    /\ (InClose /\ audio_player # None) => Count(stopLog, "terminate") = 1
    /\ Count(stopLog, "terminate") <= 1
    /\ Count(stopLog, "close") <= 1
    /\ pc["main"] \in {"join", "terminate", "terminate_stop", "terminate_close"} =>
           closeCalls = IF nStops > 1 /\ connection # None THEN nStops - 1 ELSE 0

\* a stop_session of a running session has run to its last step
C8_Witness ==
    /\ stopLog = <<"signal", "join", "join", "terminate", "close">>
    /\ pc["main"] = "idle"
    /\ streamCloses > 0
    /\ closeCalls = 1

\* ---------------------------------------------------------------- claims: start_session
ConnectTimedOut == <<"main", "connect">> \in raised

\* C12: when connect raised ConnectionError for its timeout, start_session
\* reports one 'error' event and no 'session_started', running stays false,
\* no player is built and neither worker is started.
C12_ConnectTimeout ==
    ConnectTimedOut =>
        /\ ~running
        /\ threads = <<>>
        /\ pc["send"] = "idle"
        /\ pc["recv"] = "idle"
        /\ audio_player = None
        /\ connection = None
        /\ EventCount("session_started") = 0
        /\ EventCount("error") = IF pc["main"] = "start_except" THEN 0 ELSE 1

\* start_session has returned after the timeout of connect
C12_Witness ==
    /\ ConnectTimedOut
    /\ pc["main"] = "idle"
    /\ nStops = 0
    /\ events = <<[kind |-> "error", data |-> <<>>]>>

\* C13: after start_session failed for the timeout of connect, no thread of
\* the engine is left: no worker, and the socket I/O thread has ended.
C13_NoThreadLeft ==
    (ConnectTimedOut /\ pc["main"] = "idle" /\ nStops = 0) =>
        /\ pc["send"] = "idle"
        /\ pc["recv"] = "idle"
        /\ io \in {"idle", "ended"}
        /\ sock # "open"

\* ---------------------------------------------------------------- claims: dispatch
\* the receive loop has left its while loop
LoopEnded == pc["recv"] \in {"finally", "terminate_stop", "terminate_close", "done"}

\* C14: while no stop is requested, no inbound message, malformed or not,
\* ends the receive loop: the loop skips a malformed message and goes on.
C14_MalformedSkipped == ~stop_event => ~LoopEnded

IsWellFormed(m) == m \in UNION {WellFormedMsgs(n) : n \in 1..MaxDispatchMsgs}

\* the events reported by the receive loop (after 'session_started')
Reported == Len(events) - 1

\* C15: once the receive loop has handled the messages it received, the
\* observer was called once for each well-formed event among them, audio
\* deltas included.
C15_ObserverPerEvent ==
    (BetweenMessages /\ \A i \in 1..Len(received) : IsWellFormed(received[i])) =>
        Reported = Len(received)

\* C16: the step that handles a server-sent error event reports one 'error'
\* event, returns to the head of the loop and changes neither the player nor
\* the session state.
C16_ErrorNonFatal ==
    [][(pc["recv"] = "dispatch" /\ ev.form = "object" /\ ev.type = "error"
            /\ pc'["recv"] # "dispatch") =>
           /\ pc'["recv"] = "loop"
           /\ events' = Append(events, [kind |-> "error", data |-> ev.payload])
           /\ UNCHANGED <<pvars, flags, refs, raised, message_queue, last_audio_item_id>>]_vars

\* an error event was reported and the audio delta after it was enqueued
C16_Witness ==
    /\ Len(received) = 2
    /\ received[1] = ErrorEvent
    /\ received[2].type = "response.audio.delta"
    /\ EventCount("error") = 1
    /\ Len(queue) = 1
    /\ BetweenMessages

\* ---------------------------------------------------------------- claims: capture loop
\* the capture worker failed with an exception of the device or of send
CaptureFailed == \E op \in {"open", "start", "read", "send"} : <<"send", op>> \in raised

\* C19: the capture worker ends only with the microphone it opened closed,
\* the microphone is closed by the finally clause only, from an open device,
\* and once closed it stays closed.
C19_MicClosedOnce ==
    [][/\ pc'["send"] = "done" => (mic' = "closed" \/ <<"send", "open">> \in raised')
       /\ mic = "closed" => mic' = "closed" /\ pc'["send"] = "done"
       /\ mic' # mic /\ mic' = "closed" =>
              /\ mic \in {"opened", "started"}
              /\ pc["send"] = "cap_finally"
              /\ pc'["send"] = "done"]_vars

\* reading a frame failed and the started microphone was closed
C19_Witness ==
    /\ <<"send", "read">> \in raised
    /\ pc["send"] = "done"
    /\ mic = "closed"
    /\ ~stop_event

\* C20: a failure of the capture worker ends only that worker, and it is
\* reported to the observer as an 'error' event.
C20_CaptureFailureReported ==
    (CaptureFailed /\ pc["send"] = "done") =>
        /\ (~stop_event /\ running) => ~LoopEnded
        /\ EventCount("error") >= 1

\* ---------------------------------------------------------------- claims: progress
\* C11: a call of recv by the receive loop returns: the oldest buffered
\* message if there is one, else None, whatever the state of the socket.
C11_RecvReturns ==
    /\ [][(pc["recv"] = "recv" /\ pc'["recv"] # "recv") =>
             IF message_queue = <<>>
             THEN /\ ev' = NoMsg
                  /\ pc'["recv"] = "loop"
                  /\ UNCHANGED message_queue
             ELSE /\ ev' = Head(message_queue)
                  /\ message_queue' = Tail(message_queue)
                  /\ pc'["recv"] = "dispatch"]_vars
    /\ (pc["recv"] = "recv") ~> (pc["recv"] # "recv")

\* a message was returned, and a later call returned None from the empty
\* queue of a closed socket
C11_Witness ==
    /\ Len(received) = 1
    /\ ev = NoMsg
    /\ pc["recv"] = "loop"
    /\ message_queue = <<>>
    /\ sock = "closed"

WorkersEnded == pc["send"] = "done" /\ pc["recv"] = "done"

\* C17: when the socket of an active session was closed by the peer, both
\* workers end without a call of stop_session.
C17_CloseEndsSession ==
    (io = "ended" /\ threads # <<>> /\ nStops = 0) ~> (WorkersEnded \/ nStops > 0)

\* C18: once stop_session has raised the cancellation signal of a session
\* with workers, both workers end.
C18_CancelObserved == (stop_event /\ threads # <<>>) ~> WorkersEnded

\* the signal was raised while a message was waiting and the capture loop
\* was reading, and both workers have ended
C18_Witness ==
    /\ WorkersEnded
    /\ stop_event
    /\ message_queue # <<>>
    /\ micReads = MaxMicFrames

\* ---------------------------------------------------------------- claims: lifecycle
InStart == pc["main"] \in {"connect_wait", "configure", "configure_send", "send_write",
                           "notify_started",
                           "launch", "start_except"}

InStop == pc["main"] \in {"join", "terminate", "terminate_stop", "terminate_close",
                          "close", "close_flag", "notify_stopped"}

\* the state of the session, read off the service
Phase ==
    IF ~started THEN "Idle"
    ELSE IF InStart THEN "Connecting"
    ELSE IF InStop THEN "Stopping"
    ELSE IF nStops = 0 /\ running THEN "Active"
    ELSE "Closed"

WorkerRuns(t) == pc[t] \notin {"idle", "done"}

\* C21: workers run only while the session is Active (or Stopping, until
\* they are joined), a session is Active only after its configuration was
\* sent on an open connection, and player and connection are released only
\* from Stopping on.
C21_StateMachine ==
    /\ \A t \in {"send", "recv"} : WorkerRuns(t) => Phase \in {"Active", "Stopping"}
    /\ Phase = "Active" => OutMsg("session.update", <<>>) \in {sent[i] : i \in 1..Len(sent)}
    /\ (streamCloses > 0 \/ closeCalls > 0) => Phase \in {"Stopping", "Closed"}

\* a worker is inside a call on the player or on the connection
WorkerInCall ==
    \/ pc["recv"] \in {"stream_start", "stop_halt"}
    \/ pc["send"] = "send_write"

\* C23: once stop_session has terminated the player and closed the
\* connection, no worker is inside a call on either of them.
C23_NoUseAfterClose ==
    (Count(stopLog, "terminate") > 0 /\ Count(stopLog, "close") > 0) => ~WorkerInCall

\* ---------------------------------------------------------------- claims: start_session again
\* C22: while no session was stopped and no connection was closed, at most
\* one session was started on the service: one connection, one pair of workers.
C22_SingleSession ==
    (nStops = 0 /\ closeCalls = 0) => EventCount("session_started") <= 1

\* C25: when start_session failed after the connection was opened (the
\* player could not be built) and has returned, the connection is closed.
C25_FailureReleases ==
    (<<"main", "player">> \in raised /\ pc["main"] = "idle") =>
        /\ sock # "open"
        /\ io # "running"

\* ---------------------------------------------------------------- claims: stop_session completes
\* C24: a stop_session that has begun returns, whatever the workers do.
C24_StopCompletes == InStop ~> (pc["main"] = "idle")

\* ---------------------------------------------------------------- claims: lock and lazy start
\* C26: no thread is at a device operation (stream start, stop or close)
\* while it holds the playback lock.
C26_LockNotAcrossDevice ==
    \A t \in Threads :
        pc[t] \in {"stream_start", "stop_halt", "terminate_stop", "terminate_close"} => lock # t

\* add_data decides to call start()
StartInvoked == \E t \in Threads : pc[t] # "stream_start" /\ pc'[t] = "stream_start"

\* C27: start() is invoked only while playing is false and sets it; playing
\* is reset by stop() only; an add_data that enqueues while playing is false
\* invokes start(). So one start per cycle, by the first add_data.
C27_LazyStartOnce ==
    [][/\ StartInvoked => ~playing /\ playing'
       /\ (playing /\ ~playing') => sinceStop'
       /\ (Len(queue') > Len(queue) /\ ~playing) => StartInvoked
       /\ (Len(queue') > Len(queue) /\ playing) => ~StartInvoked]_vars

\* two chunks were added in one cycle on the started device
C27_Witness ==
    /\ Len(queue) = 2
    /\ playing
    /\ stream = "active"
    /\ cleared = 0
    /\ pc["api"] = "idle"

\* ---------------------------------------------------------------- claims: close
\* a step of a close() that was called after an earlier close() had begun
LaterCloseStep ==
    \/ closeCalls >= 1 /\ closeCalls' = closeCalls + 1
    \/ closeCalls >= 2 /\ pc["api"] = "close_flag" /\ pc'["api"] = "idle"

\* C28: after close() returned the connection is not connected and its
\* socket is not open; a later close() changes nothing of the connection
\* and raises nothing.
C28_CloseIdempotent ==
    /\ []((closeCalls >= 1 /\ pc["api"] = "idle") => (~connected /\ sock # "open"))
    /\ [][LaterCloseStep =>
             UNCHANGED <<ws, connected, sock, io, message_queue, raised>>]_vars

\* an open connection was closed, and closed again
C28_Witness ==
    /\ closeCalls = 2
    /\ pc["api"] = "idle"
    /\ sock = "closed"
    /\ pushed # <<>>

\* ---------------------------------------------------------------- claims: item ids
IsDelta(e) == e.form = "object" /\ e.type = "response.audio.delta"

\* C30: the handling of an audio delta records its item id and appends its
\* chunk behind what is queued, whether the id is new or not; the queue is
\* cleared only by the stop() of speech_started or by terminate().
C30_ItemChange ==
    [][/\ (pc["recv"] = "dispatch" /\ pc'["recv"] # "dispatch" /\ IsDelta(ev)) =>
              /\ queue' = queue
              /\ cleared' = cleared
              /\ last_audio_item_id' = ev.item_id
       /\ (pc["recv"] = "add_data" /\ pc'["recv"] # "add_data") =>
              /\ queue' = Append(queue, FromBuffer(B64Decode(ev.payload)))
              /\ cleared' = cleared
       /\ cleared' # cleared =>
              \/ pc["recv"] = "stop" /\ ev.type = "input_audio_buffer.speech_started"
              \/ pc["recv"] = "finally"]_vars

\* a chunk of item B is queued behind a chunk of item A
C30_Witness ==
    /\ Kinds(received) = <<"A", "B">>
    /\ last_audio_item_id = "B"
    /\ Len(queue) = 2
    /\ queue[1] = FromBuffer(B64Decode(received[1].payload))
    /\ queue[2] = FromBuffer(B64Decode(received[2].payload))
    /\ BetweenMessages

\* ---------------------------------------------------------------- claims: wire format
\* base64.b64encode of the bytes of every frame
Encoded == [f \in CodecFrames |-> B64Encode(ToBytes(f))]

\* the frames whose encoding was sent and has come back in the delta at hand
EchoedFrames == {f \in CodecFrames : /\ ev.payload = Encoded[f]
                                      /\ \E i \in 1..Len(sent) : sent[i].audio = Encoded[f]}

\* C29: the text the capture loop makes of a frame is accepted by the
\* decoding of the receive loop and decodes to the bytes of that frame, so the
\* player is handed the samples that were read from the microphone.
C29_RoundTrip ==
    /\ \A f \in EchoedFrames : /\ B64Valid(ev.payload)
                               /\ B64Decode(ev.payload) = ToBytes(f)
    /\ (IsDelta(ev) /\ pc["recv"] \in {"dispatch", "add_data"}) => EchoedFrames # {}
    /\ pc["recv"] = "add_data" =>
          \E f \in EchoedFrames : /\ f # <<>>
                                   /\ FromBuffer(B64Decode(ev.payload)) = f
    /\ \A i \in 1..Len(queue) :
          /\ queue[i] \in CodecFrames
          /\ \E j \in 1..Len(sent) : sent[j].audio = Encoded[queue[i]]

\* a frame of two samples (four bytes, so a padded last group) went out, came
\* back and is in the playback queue
C29_Witness ==
    /\ Len(queue) = 1
    /\ Len(queue[1]) = 2
    /\ queue[1][1] < 0
    /\ sent[2] = AppendMsg(queue[1])
    /\ received[1].payload = sent[2].audio
    /\ B64Pad \in {sent[2].audio[i] : i \in 1..Len(sent[2].audio)}

\* ---------------------------------------------------------------- claims: forwarded and unknown events
\* the observer event the loop makes of a forwarded protocol event
ForwardedKind(type) ==
    CASE type = "session.created" -> "session_created"
      [] type = "conversation.item.input_audio_transcription.completed" -> "user_transcript"
      [] type = "response.text.done" -> "agent_text"
      [] type = "response.audio_transcript.done" -> "agent_audio_transcript"
      [] OTHER -> ""

KnownTypes ==
    {"session.created", "conversation.item.input_audio_transcription.completed",
     "response.text.done", "response.audio_transcript.done", "response.audio.delta",
     "input_audio_buffer.speech_started", "error"}

\* the receive loop takes the step that handles the message at hand
DispatchStep == pc["recv"] = "dispatch" /\ pc'["recv"] # "dispatch"

\* C31: the step that handles a session.created, a user transcript, an agent
\* text or an agent audio transcript event calls the observer once with the
\* id or text of the event as received, returns to the head of the loop and
\* leaves the playback queue, the playing flag and the output device alone.
C31_ForwardOnly ==
    [][(DispatchStep /\ ev.form = "object" /\ ForwardedKind(ev.type) # ""
            /\ (ev.type = "session.created" => "session" \in ev.keys)) =>
           /\ events' = Append(events, [kind |-> ForwardedKind(ev.type), data |-> ev.payload])
           /\ pc'["recv"] = "loop"
           /\ UNCHANGED <<pvars, raised, last_audio_item_id>>]_vars

\* audio is queued and playing, and the agent text that came after it was
\* forwarded with its text
C31_Witness ==
    /\ Len(received) = 2
    /\ received[2] = AgentText(2)
    /\ events[Len(events)] = [kind |-> "agent_text", data |-> <<2>>]
    /\ Len(queue) = 1
    /\ playing
    /\ stream = "active"
    /\ BetweenMessages

\* C32: the step that handles a JSON object whose type is none of the seven
\* known ones calls no observer, raises nothing, changes neither the player
\* nor the last-seen item id, and returns to the head of the loop.
C32_UnknownIgnored ==
    [][(DispatchStep /\ ev.form = "object" /\ ev.type \notin KnownTypes) =>
           /\ pc'["recv"] = "loop"
           /\ UNCHANGED <<events, pvars, raised, last_audio_item_id, flags, refs>>]_vars

\* an unknown event was handled between two audio deltas, both of which are
\* queued, and nothing was reported
C32_Witness ==
    /\ Len(received) = 3
    /\ received[2] = UnknownEvent
    /\ Len(queue) = 2
    /\ Reported = 0
    /\ raised = {}
    /\ BetweenMessages

\* ---------------------------------------------------------------- claims: order of start_session
\* self.connection is a connection on which start_session has not yet called
\* send(session.update)
Unconfigured == pc["main"] = "configure_send"

\* the capture loop calls self.connection.send with an append message and
\* send accepts it
AppendAccepted == pc["send"] = "cap_read" /\ pc'["send"] = "send_write"

\* C33: on every connection session.update is sent before any
\* input_audio_buffer.append: the capture loop hands no append to a
\* connection on which session.update has not been sent.
C33_UpdateFirst == [][AppendAccepted => ~Unconfigured]_vars

\* ---------------------------------------------------------------- claims: framing of captured audio
\* the frames of the append messages sent so far, decoded, in the order sent
RECURSIVE FramesOf(_)
FramesOf(log) ==
    IF log = <<>> THEN <<>>
    ELSE IF Head(log).type = "input_audio_buffer.append"
         THEN <<FromBuffer(B64Decode(Head(log).audio))>> \o FramesOf(Tail(log))
         ELSE FramesOf(Tail(log))

\* the capture worker takes the step that follows its loop test
CaptureStep == pc["send"] = "cap_read" /\ pc'["send"] # "cap_read"

\* C34: an iteration that finds a whole frame takes exactly that frame from
\* the head of the buffer and calls send once with it; an iteration that
\* finds less takes nothing and sends nothing. Every append that was sent
\* carries one whole frame, aligned on a frame boundary, and the frames go
\* out in the order they were read.
C34_Framing ==
    /\ [][CaptureStep =>
             IF Len(micBuf) >= ReadSize
             THEN /\ micBuf' = Drop(micBuf, ReadSize)
                  /\ micReads' = micReads + 1
                  /\ sent' = sent
                  /\ IF ws # None /\ connected
                     THEN /\ outbox'["send"] = AppendMsg(Take(micBuf, ReadSize))
                          /\ pc'["send"] = "send_write"
                     ELSE /\ outbox' = outbox
                          /\ pc'["send"] = "cap_loop"
             ELSE /\ UNCHANGED <<micBuf, micReads, sent, outbox>>
                  /\ pc'["send"] = "cap_loop"]_vars
    /\ [](LET frames == FramesOf(sent) IN
             \A i \in 1..Len(frames) :
                /\ Len(frames[i]) = ReadSize
                /\ \E k \in 1..micReads :
                      frames[i] = [n \in 1..ReadSize |-> (k - 1) * ReadSize + n]
                /\ \A j \in 1..Len(frames) : i < j => frames[i][1] < frames[j][1])

\* two frames went out, a sample that arrived after them is still waiting
C34_Witness ==
    /\ Len(FramesOf(sent)) = 2
    /\ micReads = 2
    /\ Len(micBuf) = 1
    /\ sock = "open"

\* ---------------------------------------------------------------- claims: end of the receive loop
\* C35: the receive loop leaves its while loop only when cancellation was
\* raised or the connection is closed; nothing else ends it while the session
\* is active and the connection is open.
C35_ExitOnlyOnCancelOrClose ==
    [][(pc["recv"] # "finally" /\ pc'["recv"] = "finally") =>
           (stop_event \/ ~running \/ sock # "open")]_vars

\* ---------------------------------------------------------------- claims: playing flag
\* C36: between the operations of the player the playing flag is true
\* exactly when the output stream is started.
C36_PlayingAgrees ==
    (\A t \in Threads : pc[t] = "idle") => (playing <=> stream = "active")

\* ---------------------------------------------------------------- claims: workers of a stopped session
\* stop_session has run to its end
SessionStopped == EventCount("session_stopped") > 0

\* C37: once stop_session has run, a worker of that session that is still
\* alive never begins another iteration of its loop.
C37_NoResume ==
    [][SessionStopped => ~(pc["send"] = "cap_loop" /\ pc'["send"] = "cap_read")]_vars

\* ---------------------------------------------------------------- claims: order of observer events
\* the kinds of event the receive loop reports
LoopKinds ==
    {"session_created", "user_transcript", "agent_text", "agent_audio_transcript",
     "speech_started", "error"}

\* C38: 'session_started' comes before every event of the receive loop, and
\* no event of the receive loop comes after 'session_stopped'.
C38_EventOrder ==
    \A i \in 1..Len(events) : \A j \in 1..Len(events) :
        /\ (events[i].kind \in LoopKinds /\ events[j].kind = "session_started") => j < i
        /\ (events[i].kind = "session_stopped" /\ events[j].kind \in LoopKinds) => j < i

\* ---------------------------------------------------------------- claims: the running flag
\* C39: while self.running is true the receive worker is alive: a receive
\* loop that ends on its own leaves running false.
C39_RunningMeansAlive == running => pc["recv"] # "done"

\* ---------------------------------------------------------------- claims: the voice WebSocket
\* the handler has dealt with the close of the client's WebSocket, the
\* session task has ended and no start_session or stop_session is under way
WebLayerDone ==
    /\ voice_ws = "handled"
    /\ session_task \in {"done", "failed"}
    /\ pc["main"] = "idle"

\* C40: once the close of the voice WebSocket has been dealt with and the
\* session task has ended, the session it started is stopped: running is
\* false.
C40_CloseStopsSession == WebLayerDone => ~running

====
